---- MODULE Spec2Model ----
(***************************************************************************)
(* A model of medkit's query orchestration (medkit/client.py) and of its   *)
(* rate limiters (medkit/utils.py).                                        *)
(*                                                                         *)
(* Spec        one client (MedKit or AsyncMedKit) serving search requests   *)
(*             against its three providers.                                *)
(* SpecLimiter one RateLimiter and one AsyncRateLimiter driven in lockstep  *)
(*             by a single caller, on a clock that only moves forward.     *)
(* SpecWallClock  the same, on a clock that can also be set back, as the   *)
(*             system clock behind time.time() can.                        *)
(* SpecThreads two threads calling RateLimiter.wait on one limiter.         *)
(***************************************************************************)
EXTENDS Integers, Sequences, FiniteSets, TLC

VARIABLES
    \* ---- client (medkit/client.py) ----
    client,      \* "MedKit" or "AsyncMedKit": which class was constructed
    providers,   \* self._providers: name -> "builtin" | "plugin"
    cache,       \* the lru_cache of MedKit.drug/papers/trials: method -> query -> value
    admitted,    \* admissions granted by each provider's limiter (wait() calls returned)
    pc,          \* position of the search request in flight
    query,       \* the argument of the search in flight
    drugs,       \* local `drugs` of search
    papers,      \* local `papers` of search
    trials,      \* local `trials` of search
    sources,     \* local `sources` of search
    outcome,     \* "none" | "returned" | "raised"
    result,      \* the SearchResults returned (NoResult when none)
    nsearch,     \* searches started so far
    \* ---- what the providers did (observation, never read by the client) ----
    failed,      \* providers whose call failed during the request in flight
    raised,      \* provider -> exception its call raised in this request ("none")
    raw,         \* provider -> the value its call returned in this request (NoVal: none)
    origin,      \* method -> query -> the provider's value a cache entry was made from
    \* ---- one RateLimiter and one AsyncRateLimiter, one caller (medkit/utils.py) ----
    built,       \* whether the two limiters have been constructed
    calls,       \* self.calls of both
    period,      \* self.period of both, in clock ticks
    clock,       \* time.time(), in ticks
    nwaits,      \* wait() calls issued so far
    nback,       \* times the clock has been set back so far
    sPc,         \* RateLimiter: "idle" | "entered" | "sleeping" | "append" | "raised"
    sTs,         \* RateLimiter.timestamps (a list)
    sDecision,   \* RateLimiter: what the last pass through wait() decided
    sSleep,      \* RateLimiter: the last sleep_time computed
    sWake,       \* RateLimiter: when the last sleep started ends
    sLog,        \* RateLimiter: every timestamp it recorded, in order
    aPc,         \* AsyncRateLimiter: as sPc
    aTs,         \* AsyncRateLimiter.timestamps (a deque)
    aDecision,
    aSleep,
    aWake,
    aLog,
    \* ---- threads sharing one RateLimiter ----
    tCalls,      \* self.calls
    tPeriod,     \* self.period
    tClock,      \* time.time()
    tTs,         \* self.timestamps, shared
    tLog,        \* every timestamp any thread recorded, in order
    tPc,         \* thread -> its position in wait()
    tNow,        \* thread -> its local `now`
    tTmp,        \* thread -> the list its comprehension built, not yet assigned
    tWake,       \* thread -> when its sleep ends
    tCount,      \* thread -> wait() calls it has issued
    \* ---- a MedKit and an AsyncMedKit given the same calls and responses ----
    pKinds,      \* self._providers of both: name -> "builtin" | "plugin"
    pCache,      \* the lru_cache of the MedKit: method -> value (NoVal: no entry)
    pSync,       \* what the MedKit's last search did
    pAsync,      \* what the AsyncMedKit's last search did
    pCalls,      \* searches issued to both so far
    \* ---- a question put to ask (medkit/client.py, medkit/ask_engine.py) ----
    askQuestion, \* the text asked
    askEntry,    \* the method called: "MedKit.ask", "AsyncMedKit.ask", "AskEngine.ask_sync", "AskEngine.ask"
    askPc,       \* position of the call in flight
    askIntent,   \* local `intent`
    askTerms,    \* local `search_query`
    askInvoked,  \* the client operations the call invoked, with their argument
    askDrugs,    \* whether results.drugs of the search is non-empty
    askOutcome,  \* "none" | "returned" | "raised"
    askValue,    \* the type of the value returned, or of the exception raised
    \* ---- IntelligenceEngine.synthesize (medkit/intelligence.py) ----
    synDrugs,    \* len(drugs)
    synPapers,   \* papers, up to order: year -> how many papers of that year
    synTrials,   \* trials, up to order: phase list -> how many trials with it
    synYear,     \* datetime.now().year
    synTieUp,    \* whether the binary value of a score half-way between two hundredths rounds up
    synResult,   \* the ClinicalConclusion last returned (NoConclusion: none)
    \* ---- IntelligenceEngine.correlate_entities (medkit/intelligence.py) ----
    corDrugs,    \* the argument drugs
    corTrials,   \* the argument trials
    corPc,       \* "idle" | "done"
    corMapping,  \* the mapping returned
    \* ---- explain_drug (medkit/client.py) ----
    exClient,    \* "MedKit" or "AsyncMedKit"
    exKinds,     \* self._providers: name -> "builtin" | "plugin"
    exCache,     \* the lru_cache of MedKit.drug/papers/trials for the name asked
    exResp,      \* what each provider answered in the last call (NoAnswer: not called)
    exSeen,      \* how the last explain_drug call ended and what it returned
    exCalls,     \* explain_drug calls so far
    \* ---- the providers' health checks and search (medkit/providers, medkit/client.py) ----
    hcClient,    \* "MedKit" or "AsyncMedKit"
    hcUp,        \* name -> whether the source's service answers requests
    hcCache,     \* the lru_cache of MedKit.drug/papers/trials for the query
    hcIssued,    \* the providers whose search call the last search issued
    hcSeen,      \* how the last search ended and what it returned
    hcCalls,     \* searches so far
    \* ---- one per-source operation: drug, papers or trials (medkit/client.py) ----
    opClient,    \* "MedKit" or "AsyncMedKit"
    opKinds,     \* self._providers: name -> "builtin" | "plugin" | "missing"
    opCache,     \* the lru_cache of MedKit's methods: method -> argument -> value
    opMethod,    \* the method in flight
    opArg,       \* the caller's argument
    opPc,        \* "idle" | "lookup" | "wait" | "call" | "done"
    opLog,       \* what the operation in flight did to limiters and providers, in order
    opRes,       \* what the operation returned or raised
    opCount,     \* operations started so far
    \* ---- tasks of one event loop waiting on limiters (medkit/client.py, medkit/utils.py) ----
    coLimiter,   \* the class of the limiters: "RateLimiter" | "AsyncRateLimiter"
    coSrc,       \* task -> the source its operation asks
    coTs,        \* source -> self.timestamps of that source's limiter
    coClock,     \* time.time()
    coRun,       \* the task the loop's thread is executing (NoTask: the loop is idle)
    coPc,        \* task -> "ready" | "blocked" | "suspended" | "io" | "done"
    coWake,      \* task -> when its sleep ends
    coOps        \* task -> operations it has started

clientVars == <<client, providers, cache, admitted, pc, query, drugs, papers,
                trials, sources, outcome, result, nsearch, failed, raised, raw, origin>>

limVars == <<built, calls, period, clock, nwaits, nback, sPc, sTs, sDecision, sSleep, sWake,
             sLog, aPc, aTs, aDecision, aSleep, aWake, aLog>>

thrVars == <<tCalls, tPeriod, tClock, tTs, tLog, tPc, tNow, tTmp, tWake, tCount>>

pairVars == <<pKinds, pCache, pSync, pAsync, pCalls>>

askVars == <<askQuestion, askEntry, askPc, askIntent, askTerms, askInvoked,
             askDrugs, askOutcome, askValue>>

synVars == <<synDrugs, synPapers, synTrials, synYear, synTieUp, synResult>>

corVars == <<corDrugs, corTrials, corPc, corMapping>>

\* The groups below are left alone by every specification but their own.
exVars == <<exClient, exKinds, exCache, exResp, exSeen, exCalls>>

hcVars == <<hcClient, hcUp, hcCache, hcIssued, hcSeen, hcCalls>>

opVars == <<opClient, opKinds, opCache, opMethod, opArg, opPc, opLog, opRes, opCount>>

coVars == <<coLimiter, coSrc, coTs, coClock, coRun, coPc, coWake, coOps>>

moreVars == <<corVars, exVars, hcVars, opVars, coVars>>

extVars == <<pairVars, askVars, synVars, moreVars>>

vars == <<clientVars, limVars, thrVars, extVars>>

(***************************************************************************)
(* Bounds                                                                  *)
(***************************************************************************)
MaxLen == 2        \* longest list a papers/trials provider returns
MaxSearches == 2   \* searches issued on one client

(***************************************************************************)
(* Values                                                                  *)
(***************************************************************************)
DefaultProviders == {"openfda", "pubmed", "clinicaltrials"}
ProviderNames == DefaultProviders \cup {"hospital"}
Methods == {"drug", "papers", "trials"}
Queries == {"aspirin"}

NoneYear == -1
DrugLimit == 1

DrugRecords == {"Aspirin"}
PaperRecords == { [pmid |-> "101", year |-> NoneYear],
                  [pmid |-> "102", year |-> 2024] }
TrialRecords == {"NCT1", "NCT2"}

SeqsUpTo(S, n) == UNION { [1..k -> S] : k \in 0..n }

\* A Python value a provider returns or a client method hands on: one record,
\* a list of records, or None.
Record(r) == [kind |-> "record", val |-> <<r>>]
List(s) == [kind |-> "list", val |-> s]
PyNone == [kind |-> "null", val |-> <<>>]
NoVal == [kind |-> "absent", val |-> <<>>]

\* The outcome of one provider call.
Return(v) == [st |-> "return", exc |-> "none", kind |-> v.kind, val |-> v.val]
Raise(e) == [st |-> "raise", exc |-> e, kind |-> "absent", val |-> <<>>]
Value(r) == [kind |-> r.kind, val |-> r.val]

\* What the upstream service does with one request.
Upstream(S, n) == { [ok |-> TRUE, recs |-> s] : s \in SeqsUpTo(S, n) }
                    \cup { [ok |-> FALSE, recs |-> <<>>] }

(***************************************************************************)
(* Providers                                                               *)
(***************************************************************************)
\* OpenFDAProvider.search_sync / search: every exception becomes [].
OpenFDASearch(up) == IF up.ok THEN Return(List(up.recs)) ELSE Return(List(<<>>))

\* PubMedProvider.search_sync / search: every exception becomes APIError.
PubMedSearch(up) == IF up.ok THEN Return(List(up.recs)) ELSE Raise("MedKitError")

\* ClinicalTrialsProvider.search_sync / search: httpx, then curl, then [].
ClinicalTrialsSearch(up) == IF up.ok THEN Return(List(up.recs)) ELSE Return(List(<<>>))

\* A provider registered through register_provider (or a mock, as in the
\* tests): search returns Any and may raise anything.
PluginSearch(name, S, n) ==
    { [down |-> FALSE, res |-> Return(List(s))] : s \in SeqsUpTo(S, n) }
    \cup { [down |-> FALSE, res |-> Return(PyNone)] }
    \cup (IF name = "openfda"
          THEN { [down |-> FALSE, res |-> Return(Record(r))] : r \in S }
          ELSE {})
    \cup { [down |-> TRUE, res |-> Raise(e)] : e \in {"MedKitError", "Exception"} }

\* The calls a registered provider can answer with; `down` tells whether the
\* upstream call failed.
Behaviours(name, kind) ==
    IF kind = "plugin"
    THEN CASE name = "openfda" -> PluginSearch(name, DrugRecords, DrugLimit)
           [] name = "pubmed" -> PluginSearch(name, PaperRecords, MaxLen)
           [] OTHER -> PluginSearch(name, TrialRecords, MaxLen)
    ELSE CASE name = "openfda" ->
                { [down |-> ~up.ok, res |-> OpenFDASearch(up)] :
                      up \in Upstream(DrugRecords, DrugLimit) }
           [] name = "pubmed" ->
                { [down |-> ~up.ok, res |-> PubMedSearch(up)] :
                      up \in Upstream(PaperRecords, MaxLen) }
           [] OTHER ->
                { [down |-> ~up.ok, res |-> ClinicalTrialsSearch(up)] :
                      up \in Upstream(TrialRecords, MaxLen) }

(***************************************************************************)
(* Client helpers                                                          *)
(***************************************************************************)
\* key=lambda p: p.year or 0
YearKey(p) == IF p.year = NoneYear THEN 0 ELSE p.year

\* Insert p behind every element whose key is at least p's.
InsertStable(s, p) ==
    LET k == Cardinality({ i \in 1..Len(s) : YearKey(s[i]) >= YearKey(p) })
    IN SubSeq(s, 1, k) \o <<p>> \o SubSeq(s, k + 1, Len(s))

\* sorted(...) without reverse=True: oldest first.
RECURSIVE SortedOldestFirst(_)
SortedOldestFirst(s) ==
    IF s = <<>> THEN <<>>
    ELSE LET rest == SortedOldestFirst(SubSeq(s, 1, Len(s) - 1))
             p == s[Len(s)]
             k == Cardinality({ i \in 1..Len(rest) : YearKey(rest[i]) <= YearKey(p) })
         IN SubSeq(rest, 1, k) \o <<p>> \o SubSeq(rest, k + 1, Len(rest))

RECURSIVE SortedByYear(_)
\* sorted(results, key=lambda p: p.year or 0, reverse=True): stable.
SortedByYear(s) ==
    IF s = <<>> THEN <<>>
    ELSE InsertStable(SortedByYear(SubSeq(s, 1, Len(s) - 1)), s[Len(s)])

\* The body of MedKit.papers behind the limiter: the provider's value, sorted.
\* sorted(None) raises TypeError.
PapersBody(res) ==
    IF res.st = "raise" THEN res
    ELSE IF res.kind = "list" THEN Return(List(SortedByYear(res.val)))
    ELSE Raise("Exception")

\* cache_response: only MedKit's methods are decorated, and MedKit has no
\* `cache` attribute, so the lru_cache path is the one taken.
Cached(m, q) == client = "MedKit" /\ cache[m][q] # NoVal

\* lru_cache stores a returned value and nothing when the call raised.
Stored(res) == client = "MedKit" /\ res.st = "return"

Store(m, q, res) ==
    IF Stored(res)
    THEN [cache EXCEPT ![m][q] = Value(res)]
    ELSE cache

\* The source is listed without looking at what it returned.
TruthyAlways(v) == TRUE

\* `if papers:` / `if trials:`
Truthy(v) == v.kind = "record" \/ (v.kind = "list" /\ v.val # <<>>)

\* SearchMetadata(query_time=latency, sources=sources, cached=False)
SearchMetadata(srcs) ==
    [kind |-> "SearchMetadata", sources |-> srcs, cached |-> FALSE,
     offline_providers |-> <<>>]

\* A constructor that accepts whatever it is given.
ValidAnything(d, p, t) == TRUE

\* pydantic's validation of SearchResults: drugs: List[DrugInfo],
\* papers: List[ResearchPaper], trials: List[ClinicalTrial].
Valid(d, p, t) ==
    /\ \A i \in 1..Len(d) : d[i].kind = "record"
    /\ p.kind = "list"
    /\ t.kind = "list"

NoResult == [drugs |-> <<>>, papers |-> NoVal, trials |-> NoVal,
             metadata |-> [kind |-> "absent", sources |-> <<>>, cached |-> FALSE,
                           offline_providers |-> <<>>]]

SearchResults(d, p, t, md) == [drugs |-> d, papers |-> p, trials |-> t, metadata |-> md]

\* provider = self._providers.get(name); if not provider: raise MedKitError(...)
\* and, past that, provider.search_sync(...) / await provider.search(...).
Answers(n) ==
    IF n \in DOMAIN providers
    THEN Behaviours(n, providers[n])
    ELSE { [down |-> FALSE, res |-> Raise("MedKitError")] }

\* self._<name>_limiter.wait(): runs only when the provider is registered, and
\* returns once the limiter has recorded one more admission.
Admit(n) ==
    IF n \in DOMAIN providers
    THEN [admitted EXCEPT ![n] = @ + 1]
    ELSE admitted

(***************************************************************************)
(* Init                                                                    *)
(***************************************************************************)
ClientInit ==
    /\ client \in {"MedKit", "AsyncMedKit"}
    /\ providers = [n \in DefaultProviders |-> "builtin"]
    /\ cache = [m \in Methods |-> [q \in Queries |-> NoVal]]
    /\ admitted = [n \in DefaultProviders |-> 0]
    /\ pc = "idle"
    /\ query = "aspirin"
    /\ drugs = <<>>
    /\ papers = NoVal
    /\ trials = NoVal
    /\ sources = <<>>
    /\ outcome = "none"
    /\ result = NoResult
    /\ nsearch = 0
    /\ failed = {}
    /\ raised = [n \in DefaultProviders |-> "none"]
    /\ raw = [n \in DefaultProviders |-> NoVal]
    /\ origin = [m \in Methods |-> [q \in Queries |-> NoVal]]

\* The limiters of SpecLimiter, not yet constructed.
LimInit ==
    /\ built = FALSE
    /\ calls = 0
    /\ period = 0
    /\ clock = 0
    /\ nwaits = 0
    /\ nback = 0
    /\ sPc = "idle"
    /\ sTs = <<>>
    /\ sDecision = "none"
    /\ sSleep = 0
    /\ sWake = 0
    /\ sLog = <<>>
    /\ aPc = "idle"
    /\ aTs = <<>>
    /\ aDecision = "none"
    /\ aSleep = 0
    /\ aWake = 0
    /\ aLog = <<>>

\* The shared limiter of SpecThreads, not in use.
ThrOff ==
    /\ tCalls = 0
    /\ tPeriod = 0
    /\ tClock = 0
    /\ tTs = <<>>
    /\ tLog = <<>>
    /\ tPc = <<>>
    /\ tNow = <<>>
    /\ tTmp = <<>>
    /\ tWake = <<>>
    /\ tCount = <<>>

\* The pair of clients of SpecPair, not in use.
PairOff ==
    /\ pKinds = <<>>
    /\ pCache = <<>>
    /\ pSync = <<>>
    /\ pAsync = <<>>
    /\ pCalls = 0

\* No question asked.
AskOff ==
    /\ askQuestion = <<>>
    /\ askEntry = "none"
    /\ askPc = "idle"
    /\ askIntent = "none"
    /\ askTerms = <<>>
    /\ askInvoked = <<>>
    /\ askDrugs = FALSE
    /\ askOutcome = "none"
    /\ askValue = "none"

\* No ClinicalConclusion returned yet.
NoConclusion ==
    [summary |-> "none", evidence_score |-> 0, key_findings |-> <<>>,
     recommendation |-> "none"]

\* synthesize not in use.
SynOff ==
    /\ synDrugs = 0
    /\ synPapers = <<>>
    /\ synTrials = <<>>
    /\ synYear = 0
    /\ synTieUp = FALSE
    /\ synResult = NoConclusion

\* correlate_entities not in use.
CorOff ==
    /\ corDrugs = <<>>
    /\ corTrials = <<>>
    /\ corPc = "idle"
    /\ corMapping = <<>>

\* explain_drug not in use.
ExOff ==
    /\ exClient = "none"
    /\ exKinds = <<>>
    /\ exCache = <<>>
    /\ exResp = <<>>
    /\ exSeen = <<>>
    /\ exCalls = 0

\* No client with probed providers.
HcOff ==
    /\ hcClient = "none"
    /\ hcUp = <<>>
    /\ hcCache = <<>>
    /\ hcIssued = {}
    /\ hcSeen = <<>>
    /\ hcCalls = 0

\* No per-source operation in flight.
OpOff ==
    /\ opClient = "none"
    /\ opKinds = <<>>
    /\ opCache = <<>>
    /\ opMethod = "none"
    /\ opArg = "none"
    /\ opPc = "idle"
    /\ opLog = <<>>
    /\ opRes = <<>>
    /\ opCount = 0

\* No event loop.
CoOff ==
    /\ coLimiter = "none"
    /\ coSrc = <<>>
    /\ coTs = <<>>
    /\ coClock = 0
    /\ coRun = 0
    /\ coPc = <<>>
    /\ coWake = <<>>
    /\ coOps = <<>>

MoreOff == CorOff /\ ExOff /\ HcOff /\ OpOff /\ CoOff

ExtOff == PairOff /\ AskOff /\ SynOff /\ MoreOff

Init == ClientInit /\ LimInit /\ ThrOff /\ ExtOff

(***************************************************************************)
(* Client actions                                                          *)
(***************************************************************************)
\* register_provider(provider): a named provider replaces or joins the registry.
RegisterProvider(n) ==
    /\ pc \in {"idle", "done"}
    /\ providers' = [m \in DOMAIN providers \cup {n} |-> IF m = n THEN "plugin" ELSE providers[m]]
    /\ UNCHANGED <<client, cache, admitted, pc, query, drugs, papers, trials,
                   sources, outcome, result, nsearch, failed, raised, raw, origin>>
    /\ UNCHANGED <<limVars, thrVars, extVars>>

\* search(query): start_time, drugs = [], sources = [].
StartSearch(q) ==
    /\ pc \in {"idle", "done"}
    /\ nsearch < MaxSearches
    /\ nsearch' = nsearch + 1
    /\ pc' = "drug"
    /\ query' = q
    /\ drugs' = <<>>
    /\ papers' = NoVal
    /\ trials' = NoVal
    /\ sources' = <<>>
    /\ outcome' = "none"
    /\ result' = NoResult
    /\ failed' = {}
    /\ raised' = [n \in DefaultProviders |-> "none"]
    /\ raw' = [n \in DefaultProviders |-> NoVal]
    /\ UNCHANGED <<client, providers, cache, admitted, origin>>
    /\ UNCHANGED <<limVars, thrVars, extVars>>

\* An exception other than MedKitError leaves search.
Propagate ==
    /\ pc' = "done"
    /\ outcome' = "raised"
    /\ result' = NoResult

\* try: drug_info = self.drug(query); drugs = [drug_info];
\*      sources.append("openfda")  except MedKitError: pass
SearchDrugCached ==
    /\ pc = "drug"
    /\ Cached("drug", query)
    /\ drugs' = <<cache["drug"][query]>>
    /\ sources' = Append(sources, "openfda")
    /\ pc' = "papers"
    /\ UNCHANGED <<client, providers, cache, admitted, query, papers, trials,
                   outcome, result, nsearch, failed, raised, raw, origin>>
    /\ UNCHANGED <<limVars, thrVars, extVars>>

SearchDrugCall ==
    /\ pc = "drug"
    /\ ~Cached("drug", query)
    /\ admitted' = Admit("openfda")
    /\ \E b \in Answers("openfda") :
         /\ failed' = IF b.down THEN failed \cup {"openfda"} ELSE failed
         /\ raised' = [raised EXCEPT !["openfda"] = b.res.exc]
         /\ cache' = Store("drug", query, b.res)
         /\ origin' = IF Stored(b.res) THEN [origin EXCEPT !["drug"][query] = Value(b.res)]
                       ELSE origin
         /\ raw' = [raw EXCEPT !["openfda"] = Value(b.res)]
         /\ IF b.res.st = "return"
            THEN /\ drugs' = <<Value(b.res)>>
                 /\ sources' = Append(sources, "openfda")
                 /\ pc' = "papers"
                 /\ UNCHANGED <<outcome, result>>
            ELSE IF b.res.exc = "MedKitError"
            THEN /\ pc' = "papers"
                 /\ UNCHANGED <<drugs, sources, outcome, result>>
            ELSE /\ Propagate
                 /\ UNCHANGED <<drugs, sources>>
    /\ UNCHANGED <<client, providers, query, papers, trials, nsearch>>
    /\ UNCHANGED <<limVars, thrVars, extVars>>

\* try: papers = self.papers(query, limit=5); if papers: sources.append("pubmed")
\* except MedKitError: papers = []
SearchPapersCached ==
    /\ pc = "papers"
    /\ Cached("papers", query)
    /\ papers' = cache["papers"][query]
    /\ sources' = IF Truthy(cache["papers"][query]) THEN Append(sources, "pubmed") ELSE sources
    /\ pc' = "trials"
    /\ UNCHANGED <<client, providers, cache, admitted, query, drugs, trials,
                   outcome, result, nsearch, failed, raised, raw, origin>>
    /\ UNCHANGED <<limVars, thrVars, extVars>>

SearchPapersCall ==
    /\ pc = "papers"
    /\ ~Cached("papers", query)
    /\ admitted' = Admit("pubmed")
    /\ \E b \in Answers("pubmed") :
         LET res == PapersBody(b.res) IN
         /\ failed' = IF b.down THEN failed \cup {"pubmed"} ELSE failed
         /\ raised' = [raised EXCEPT !["pubmed"] = res.exc]
         /\ cache' = Store("papers", query, res)
         /\ origin' = IF Stored(res) THEN [origin EXCEPT !["papers"][query] = Value(b.res)]
                       ELSE origin
         /\ raw' = [raw EXCEPT !["pubmed"] = Value(b.res)]
         /\ IF res.st = "return"
            THEN /\ papers' = Value(res)
                 /\ sources' = IF Truthy(Value(res)) THEN Append(sources, "pubmed") ELSE sources
                 /\ pc' = "trials"
                 /\ UNCHANGED <<outcome, result>>
            ELSE IF res.exc = "MedKitError"
            THEN /\ papers' = List(<<>>)
                 /\ pc' = "trials"
                 /\ UNCHANGED <<sources, outcome, result>>
            ELSE /\ Propagate
                 /\ UNCHANGED <<papers, sources>>
    /\ UNCHANGED <<client, providers, query, drugs, trials, nsearch>>
    /\ UNCHANGED <<limVars, thrVars, extVars>>

\* try: trials = self.trials(query, limit=5); if trials: sources.append("clinicaltrials")
\* except MedKitError: trials = []
SearchTrialsCached ==
    /\ pc = "trials"
    /\ Cached("trials", query)
    /\ trials' = cache["trials"][query]
    /\ sources' = IF Truthy(cache["trials"][query])
                  THEN Append(sources, "clinicaltrials") ELSE sources
    /\ pc' = "build"
    /\ UNCHANGED <<client, providers, cache, admitted, query, drugs, papers,
                   outcome, result, nsearch, failed, raised, raw, origin>>
    /\ UNCHANGED <<limVars, thrVars, extVars>>

SearchTrialsCall ==
    /\ pc = "trials"
    /\ ~Cached("trials", query)
    /\ admitted' = Admit("clinicaltrials")
    /\ \E b \in Answers("clinicaltrials") :
         /\ failed' = IF b.down THEN failed \cup {"clinicaltrials"} ELSE failed
         /\ raised' = [raised EXCEPT !["clinicaltrials"] = b.res.exc]
         /\ cache' = Store("trials", query, b.res)
         /\ origin' = IF Stored(b.res) THEN [origin EXCEPT !["trials"][query] = Value(b.res)]
                       ELSE origin
         /\ raw' = [raw EXCEPT !["clinicaltrials"] = Value(b.res)]
         /\ IF b.res.st = "return"
            THEN /\ trials' = Value(b.res)
                 /\ sources' = IF Truthy(Value(b.res))
                               THEN Append(sources, "clinicaltrials") ELSE sources
                 /\ pc' = "build"
                 /\ UNCHANGED <<outcome, result>>
            ELSE IF b.res.exc = "MedKitError"
            THEN /\ trials' = List(<<>>)
                 /\ pc' = "build"
                 /\ UNCHANGED <<sources, outcome, result>>
            ELSE /\ Propagate
                 /\ UNCHANGED <<trials, sources>>
    /\ UNCHANGED <<client, providers, query, drugs, papers, nsearch>>
    /\ UNCHANGED <<limVars, thrVars, extVars>>

\* metadata = SearchMetadata(...); return SearchResults(drugs=drugs, papers=papers,
\* trials=trials, metadata=metadata): the constructor validates or raises.
SearchReturn ==
    /\ pc = "build"
    /\ pc' = "done"
    /\ IF Valid(drugs, papers, trials)
       THEN /\ outcome' = "returned"
            /\ result' = SearchResults(drugs, papers, trials, SearchMetadata(sources))
       ELSE /\ outcome' = "raised"
            /\ result' = NoResult
    /\ UNCHANGED <<client, providers, cache, admitted, query, drugs, papers, trials,
                   sources, nsearch, failed, raised, raw, origin>>
    /\ UNCHANGED <<limVars, thrVars, extVars>>

Next ==
    \/ \E n \in ProviderNames : RegisterProvider(n)
    \/ \E q \in Queries : StartSearch(q)
    \/ SearchDrugCached
    \/ SearchDrugCall
    \/ SearchPapersCached
    \/ SearchPapersCall
    \/ SearchTrialsCached
    \/ SearchTrialsCall
    \/ SearchReturn

Spec == Init /\ [][Next]_vars

(***************************************************************************)
(* Properties of search                                                    *)
(***************************************************************************)
Returned == pc = "done" /\ outcome = "returned"

Elems(s) == { s[i] : i \in 1..Len(s) }

Count(s, r) == Cardinality({ i \in 1..Len(s) : s[i] = r })

SameRecords(s, t) ==
    /\ Len(s) = Len(t)
    /\ \A r \in Elems(s) \cup Elems(t) : Count(s, r) = Count(t, r)

\* The provider's value a category of the request in flight is built from:
\* this request's call, or the call whose value the cache still serves.
Supplied(n, m) ==
    IF raw[n] # NoVal THEN raw[n]
    ELSE IF raised[n] = "none" /\ client = "MedKit" THEN origin[m][query]
    ELSE NoVal

\* C1: a failing source never fails search: the search returns, the failed
\* source's category is empty and the other categories hold exactly the
\* records their sources returned.
C1_SourceFailureIsolated ==
    (pc = "done" /\ failed # {}) =>
        /\ outcome = "returned"
        /\ "openfda" \in failed => result.drugs = <<>>
        /\ "pubmed" \in failed => result.papers = List(<<>>)
        /\ "clinicaltrials" \in failed => result.trials = List(<<>>)
        /\ "openfda" \notin failed => result.drugs = <<Supplied("openfda", "drug")>>
        /\ "pubmed" \notin failed =>
               /\ result.papers.kind = "list"
               /\ SameRecords(result.papers.val, Supplied("pubmed", "papers").val)
        /\ "clinicaltrials" \notin failed =>
               result.trials = Supplied("clinicaltrials", "trials")

\* C2: offline_providers lists exactly the sources that failed in this request.
C2_OfflineListsFailed ==
    Returned => Elems(result.metadata.offline_providers) = failed

\* C3 (as claimed): sources lists every registered source.
C3_SourcesListAllRegistered ==
    Returned => DOMAIN providers \subseteq Elems(result.metadata.sources)

\* The names of the sources whose category of the result holds a record, in
\* the order search visits them.
Contributors ==
    (IF result.drugs # <<>> THEN <<"openfda">> ELSE <<>>)
    \o (IF result.papers.val # <<>> THEN <<"pubmed">> ELSE <<>>)
    \o (IF result.trials.val # <<>> THEN <<"clinicaltrials">> ELSE <<>>)

\* C3 (amended): sources lists exactly the sources that contributed at least
\* one record to the result; a source that failed or returned nothing is not
\* listed.
C3_SourcesListContributors ==
    Returned => result.metadata.sources = Contributors

C3_Witness ==
    /\ Returned
    /\ "pubmed" \in failed
    /\ result.trials = List(<<>>)
    /\ raw["clinicaltrials"] = List(<<>>)
    /\ result.metadata.sources = <<"openfda">>

\* C4: when every source fails, search still returns, with all categories
\* empty and all sources in offline_providers.
C4_AllFailedStillReturns ==
    (pc = "done" /\ failed = DefaultProviders) =>
        /\ outcome = "returned"
        /\ result.drugs = <<>>
        /\ result.papers = List(<<>>)
        /\ result.trials = List(<<>>)
        /\ Elems(result.metadata.offline_providers) = DefaultProviders

DescendingByYear(s) ==
    \A i, j \in 1..Len(s) : i < j => YearKey(s[i]) >= YearKey(s[j])

\* The records of s whose year key is k, in the order of s.
RECURSIVE OfYear(_, _)
OfYear(s, k) ==
    IF s = <<>> THEN <<>>
    ELSE IF YearKey(s[1]) = k THEN <<s[1]>> \o OfYear(Tail(s), k)
    ELSE OfYear(Tail(s), k)

\* t holds the records of s, newest year first, records of one year in the
\* order of s.
NewestFirstOf(t, s) ==
    /\ SameRecords(t, s)
    /\ DescendingByYear(t)
    /\ \A r \in Elems(s) : OfYear(t, YearKey(r)) = OfYear(s, YearKey(r))

C6_ResultWellFormed ==
    Returned =>
        /\ \A i \in 1..Len(result.drugs) : result.drugs[i].kind = "record"
        /\ result.papers.kind = "list"
        /\ result.trials.kind = "list"
        /\ result.metadata.kind = "SearchMetadata"

C6_Witness ==
    /\ Returned
    /\ failed # {}
    /\ result.drugs # <<>>
    /\ providers["clinicaltrials"] = "plugin"

(***************************************************************************)
(* The registry edited by the caller (SpecRegistry)                        *)
(***************************************************************************)
\* self._providers is a plain dict that the tests, the examples and the CLI
\* read and write directly; no method removes an entry, a caller's
\* `del med._providers[name]` does. The client is idle again: what the last
\* search left behind no longer describes the registry.
RemoveProvider(n) ==
    /\ pc \in {"idle", "done"}
    /\ n \in DOMAIN providers
    /\ providers' = [m \in DOMAIN providers \ {n} |-> providers[m]]
    /\ pc' = "idle"
    /\ UNCHANGED <<client, cache, admitted, query, drugs, papers, trials,
                   sources, outcome, result, nsearch, failed, raised, raw, origin>>
    /\ UNCHANGED <<limVars, thrVars, extVars>>

RegistryNext ==
    \/ \E n \in ProviderNames : RegisterProvider(n)
    \/ \E n \in ProviderNames : RemoveProvider(n)
    \/ \E q \in Queries : StartSearch(q)
    \/ SearchDrugCached
    \/ SearchDrugCall
    \/ SearchPapersCached
    \/ SearchPapersCall
    \/ SearchTrialsCached
    \/ SearchTrialsCall
    \/ SearchReturn

SpecRegistry == Init /\ [][RegistryNext]_vars

\* The method of the client that asks source n.
MethodOf(n) ==
    CASE n = "openfda" -> "drug"
      [] n = "pubmed" -> "papers"
      [] OTHER -> "trials"

\* search got as far as asking source n: no earlier call let an exception
\* that is not a MedKitError through.
Asked(n) ==
    CASE n = "openfda" -> TRUE
      [] n = "pubmed" -> raised["openfda"] # "Exception"
      [] OTHER -> raised["openfda"] # "Exception" /\ raised["pubmed"] # "Exception"

\* Source n was requested in the finished search while it was not registered
\* (the registry loses no entry during or after a search without the client
\* going back to idle, and a method whose provider is missing stores nothing
\* in the cache).
RequestedUnregistered(n) ==
    /\ pc = "done"
    /\ n \notin DOMAIN providers
    /\ ~Cached(MethodOf(n), query)
    /\ Asked(n)

\* C11: requesting a source that is not registered raises: the per-source
\* method (drug, papers, trials) raises, and search raises too, it does not
\* return an empty category for that source.
C11_UnregisteredSourceRaises ==
    \A n \in DefaultProviders :
        RequestedUnregistered(n) =>
            /\ raised[n] = "MedKitError"
            /\ outcome = "raised"

\* The per-source half of C11 alone: the method raises MedKitError.
C11_DirectOperationRaises ==
    \A n \in DefaultProviders :
        RequestedUnregistered(n) => raised[n] = "MedKitError"

(***************************************************************************)
(* Rate limiters, one caller (SpecLimiter)                                 *)
(***************************************************************************)
MaxCalls == 2      \* largest `calls` a limiter is constructed with
MaxPeriod == 2     \* largest `period`, in ticks
MaxTime == 5       \* the clock stops here
MaxWaits == MaxCalls + 2   \* wait() calls issued by the caller
MaxSetBacks == 1   \* times the clock is set back

\* A window that is never pruned.
PruneNothing(ts, now, p) == ts

\* self.timestamps = [t for t in self.timestamps if now - t < self.period]
PruneSync(ts, now, p) == SelectSeq(ts, LAMBDA t : now - t < p)

RECURSIVE PruneAsync(_, _, _)
\* while self.timestamps and now - self.timestamps[0] >= self.period:
\*     self.timestamps.popleft()
PruneAsync(ts, now, p) ==
    IF ts # <<>> /\ now - ts[1] >= p THEN PruneAsync(Tail(ts), now, p) ELSE ts

\* The test with > for >=: one admission too many.
FullOffByOne(ts, c) == Len(ts) > c

\* if len(self.timestamps) >= self.calls:
Full(ts, c) == Len(ts) >= c

\* sleep_time = self.period - (now - self.timestamps[0])
SleepTime(ts, now, p) == p - (now - ts[1])

\* One pass through the body of wait() behind the pruning: admit (go on to
\* the append), or wait (sleep when sleep_time > 0, then call wait() again).
\* self.timestamps[0] of an empty list raises IndexError.
Decide(ts, c, p, now) ==
    IF ~Full(ts, c)
    THEN [pc |-> "append", decision |-> "admit", sleep |-> 0, wake |-> 0]
    ELSE IF ts = <<>>
    THEN [pc |-> "raised", decision |-> "error", sleep |-> 0, wake |-> 0]
    ELSE IF SleepTime(ts, now, p) > 0
    THEN [pc |-> "sleeping", decision |-> "wait",
          sleep |-> SleepTime(ts, now, p), wake |-> now + SleepTime(ts, now, p)]
    ELSE [pc |-> "entered", decision |-> "wait",
          sleep |-> SleepTime(ts, now, p), wake |-> 0]

\* RateLimiter(calls, period) and AsyncRateLimiter(calls, period): __init__
\* stores its arguments and an empty window.
Construct(c, p) ==
    /\ ~built
    /\ built' = TRUE
    /\ calls' = c
    /\ period' = p
    /\ sTs' = <<>>
    /\ aTs' = <<>>
    /\ UNCHANGED <<clock, nwaits, sPc, sDecision, sSleep, sWake, sLog,
                   aPc, aDecision, aSleep, aWake, aLog>>
    /\ UNCHANGED <<nback, clientVars, thrVars, extVars>>

\* Time passes.
Tick ==
    /\ built
    /\ clock < MaxTime
    /\ clock' = clock + 1
    /\ UNCHANGED <<built, calls, period, nwaits, sPc, sTs, sDecision, sSleep, sWake,
                   sLog, aPc, aTs, aDecision, aSleep, aWake, aLog>>
    /\ UNCHANGED <<nback, clientVars, thrVars, extVars>>

\* The caller calls wait() on both limiters.
StartWait ==
    /\ built
    /\ sPc = "idle"
    /\ aPc = "idle"
    /\ nwaits < MaxWaits
    /\ nwaits' = nwaits + 1
    /\ sPc' = "entered"
    /\ aPc' = "entered"
    /\ UNCHANGED <<built, calls, period, clock, sTs, sDecision, sSleep, sWake, sLog,
                   aTs, aDecision, aSleep, aWake, aLog>>
    /\ UNCHANGED <<nback, clientVars, thrVars, extVars>>

\* now = time.time(), the pruning and the decision, in each limiter that is
\* at the top of wait().
Enter ==
    /\ sPc = "entered" \/ aPc = "entered"
    /\ IF sPc = "entered"
       THEN LET d == Decide(PruneSync(sTs, clock, period), calls, period, clock) IN
            /\ sTs' = PruneSync(sTs, clock, period)
            /\ sPc' = d.pc
            /\ sDecision' = d.decision
            /\ sSleep' = IF d.decision = "wait" THEN d.sleep ELSE sSleep
            /\ sWake' = IF d.decision = "wait" THEN d.wake ELSE sWake
       ELSE UNCHANGED <<sTs, sPc, sDecision, sSleep, sWake>>
    /\ IF aPc = "entered"
       THEN LET d == Decide(PruneAsync(aTs, clock, period), calls, period, clock) IN
            /\ aTs' = PruneAsync(aTs, clock, period)
            /\ aPc' = d.pc
            /\ aDecision' = d.decision
            /\ aSleep' = IF d.decision = "wait" THEN d.sleep ELSE aSleep
            /\ aWake' = IF d.decision = "wait" THEN d.wake ELSE aWake
       ELSE UNCHANGED <<aTs, aPc, aDecision, aSleep, aWake>>
    /\ UNCHANGED <<built, calls, period, clock, nwaits, sLog, aLog>>
    /\ UNCHANGED <<nback, clientVars, thrVars, extVars>>

\* time.sleep(sleep_time) / await asyncio.sleep(sleep_time) is over; wait()
\* calls itself.
Wake ==
    /\ (sPc = "sleeping" /\ clock >= sWake) \/ (aPc = "sleeping" /\ clock >= aWake)
    /\ sPc' = IF sPc = "sleeping" /\ clock >= sWake THEN "entered" ELSE sPc
    /\ aPc' = IF aPc = "sleeping" /\ clock >= aWake THEN "entered" ELSE aPc
    /\ UNCHANGED <<built, calls, period, clock, nwaits, sTs, sDecision, sSleep, sWake,
                   sLog, aTs, aDecision, aSleep, aWake, aLog>>
    /\ UNCHANGED <<nback, clientVars, thrVars, extVars>>

\* self.timestamps.append(time.time()), and wait() returns.
Admission ==
    /\ sPc = "append" \/ aPc = "append"
    /\ IF sPc = "append"
       THEN /\ sTs' = Append(sTs, clock)
            /\ sLog' = Append(sLog, clock)
            /\ sPc' = "idle"
       ELSE UNCHANGED <<sTs, sLog, sPc>>
    /\ IF aPc = "append"
       THEN /\ aTs' = Append(aTs, clock)
            /\ aLog' = Append(aLog, clock)
            /\ aPc' = "idle"
       ELSE UNCHANGED <<aTs, aLog, aPc>>
    /\ UNCHANGED <<built, calls, period, clock, nwaits, sDecision, sSleep, sWake,
                   aDecision, aSleep, aWake>>
    /\ UNCHANGED <<nback, clientVars, thrVars, extVars>>

\* The client of Spec, constructed and idle.
ClientOff == ClientInit /\ client = "MedKit"

LimiterInit == ClientOff /\ LimInit /\ ThrOff /\ ExtOff

LimiterNext ==
    \/ \E c \in 0..MaxCalls, p \in 1..MaxPeriod : Construct(c, p)
    \/ Tick
    \/ StartWait
    \/ Enter
    \/ Wake
    \/ Admission

SpecLimiter == LimiterInit /\ [][LimiterNext]_vars

\* time.time() reads the system clock, which can be set back between two
\* readings.
SetBack ==
    /\ built
    /\ clock > 0
    /\ nback < MaxSetBacks
    /\ nback' = nback + 1
    /\ clock' \in 0..(clock - 1)
    /\ UNCHANGED <<built, calls, period, nwaits, sPc, sTs, sDecision, sSleep, sWake,
                   sLog, aPc, aTs, aDecision, aSleep, aWake, aLog>>
    /\ UNCHANGED <<clientVars, thrVars, extVars>>

WallClockNext ==
    \/ \E c \in 0..MaxCalls, p \in 1..MaxPeriod : Construct(c, p)
    \/ Tick
    \/ SetBack
    \/ StartWait
    \/ Enter
    \/ Wake
    \/ Admission

SpecWallClock == LimiterInit /\ [][WallClockNext]_vars

(***************************************************************************)
(* Properties of the limiters with one caller                              *)
(***************************************************************************)
\* The admission that follows c others is at least p after the first of them.
Spaced(log, c, p) ==
    \A i \in 1..Len(log) : i + c <= Len(log) => log[i + c] - log[i] >= p

\* No window [x, x + p) holds more than c admissions.
WindowBounded(log, c, p) ==
    \A x \in 0..MaxTime :
        Cardinality({ i \in 1..Len(log) : x <= log[i] /\ log[i] < x + p }) <= c

\* C7: with calls >= 1 and one caller, no rolling window of `period` holds
\* more than `calls` admissions, and admission calls + 1 comes at least
\* `period` after the first; for both limiters.
C7_RateBounded ==
    (built /\ calls >= 1) =>
        /\ Spaced(sLog, calls, period) /\ WindowBounded(sLog, calls, period)
        /\ Spaced(aLog, calls, period) /\ WindowBounded(aLog, calls, period)

C7_Witness ==
    /\ built /\ calls = 2 /\ period = 2
    /\ Len(sLog) = 3 /\ Len(aLog) = 3
    /\ sSleep > 0
    /\ sLog[3] - sLog[1] = period

\* C9: the two limiters, driven by the same calls at the same clock readings,
\* are at the same place in wait() with the same decision, the same
\* sleep_time and the same window. (Holds while the readings never decrease,
\* as under SpecLimiter, where both prunings drop a prefix of a sorted window;
\* fails under SpecWallClock.)
C9_VariantsAgree ==
    /\ sPc = aPc
    /\ sDecision = aDecision
    /\ sSleep = aSleep
    /\ sWake = aWake
    /\ sTs = aTs
    /\ sLog = aLog

\* C10: no limiter with calls <= 0 is ever constructed.
C10_NonPositiveCallsRejected == built => calls >= 1

(***************************************************************************)
(* Threads sharing one RateLimiter (SpecThreads)                           *)
(***************************************************************************)
NumThreads == 2        \* threads calling wait() on the limiter
MaxThreadWaits == 2    \* wait() calls per thread
Threads == 1..NumThreads

\* A thread calls wait().
TCall(t) ==
    /\ tPc[t] = "idle"
    /\ tCount[t] < MaxThreadWaits
    /\ tCount' = [tCount EXCEPT ![t] = @ + 1]
    /\ tPc' = [tPc EXCEPT ![t] = "now"]
    /\ UNCHANGED <<tCalls, tPeriod, tClock, tTs, tLog, tNow, tTmp, tWake>>
    /\ UNCHANGED <<clientVars, limVars, extVars>>

\* now = time.time()
TNow(t) ==
    /\ tPc[t] = "now"
    /\ tNow' = [tNow EXCEPT ![t] = tClock]
    /\ tPc' = [tPc EXCEPT ![t] = "filter"]
    /\ UNCHANGED <<tCalls, tPeriod, tClock, tTs, tLog, tTmp, tWake, tCount>>
    /\ UNCHANGED <<clientVars, limVars, extVars>>

\* [t for t in self.timestamps if now - t < self.period]: the new list, built
\* from the shared one.
TFilter(t) ==
    /\ tPc[t] = "filter"
    /\ tTmp' = [tTmp EXCEPT ![t] = PruneSync(tTs, tNow[t], tPeriod)]
    /\ tPc' = [tPc EXCEPT ![t] = "assign"]
    /\ UNCHANGED <<tCalls, tPeriod, tClock, tTs, tLog, tNow, tWake, tCount>>
    /\ UNCHANGED <<clientVars, limVars, extVars>>

\* self.timestamps = <the new list>
TAssign(t) ==
    /\ tPc[t] = "assign"
    /\ tTs' = tTmp[t]
    /\ tPc' = [tPc EXCEPT ![t] = "check"]
    /\ UNCHANGED <<tCalls, tPeriod, tClock, tLog, tNow, tTmp, tWake, tCount>>
    /\ UNCHANGED <<clientVars, limVars, extVars>>

\* if len(self.timestamps) >= self.calls: sleep_time = ...; sleep; self.wait()
TCheck(t) ==
    /\ tPc[t] = "check"
    /\ LET d == Decide(tTs, tCalls, tPeriod, tNow[t]) IN
       /\ tPc' = [tPc EXCEPT ![t] = IF d.pc = "entered" THEN "now" ELSE d.pc]
       /\ tWake' = [tWake EXCEPT ![t] = d.wake]
    /\ UNCHANGED <<tCalls, tPeriod, tClock, tTs, tLog, tNow, tTmp, tCount>>
    /\ UNCHANGED <<clientVars, limVars, extVars>>

\* time.sleep(sleep_time) is over; wait() calls itself.
TWake(t) ==
    /\ tPc[t] = "sleeping"
    /\ tClock >= tWake[t]
    /\ tPc' = [tPc EXCEPT ![t] = "now"]
    /\ UNCHANGED <<tCalls, tPeriod, tClock, tTs, tLog, tNow, tTmp, tWake, tCount>>
    /\ UNCHANGED <<clientVars, limVars, extVars>>

\* self.timestamps.append(time.time()), and wait() returns.
TAppend(t) ==
    /\ tPc[t] = "append"
    /\ tTs' = Append(tTs, tClock)
    /\ tLog' = Append(tLog, tClock)
    /\ tPc' = [tPc EXCEPT ![t] = "idle"]
    /\ UNCHANGED <<tCalls, tPeriod, tClock, tNow, tTmp, tWake, tCount>>
    /\ UNCHANGED <<clientVars, limVars, extVars>>

\* Time passes.
TTick ==
    /\ tClock < MaxTime
    /\ tClock' = tClock + 1
    /\ UNCHANGED <<tCalls, tPeriod, tTs, tLog, tPc, tNow, tTmp, tWake, tCount>>
    /\ UNCHANGED <<clientVars, limVars, extVars>>

\* A limiter constructed with calls >= 1, and its threads.
ThreadsInit ==
    /\ ClientOff
    /\ LimInit
    /\ ExtOff
    /\ tCalls \in 1..MaxCalls
    /\ tPeriod \in 1..MaxPeriod
    /\ tClock = 0
    /\ tTs = <<>>
    /\ tLog = <<>>
    /\ tPc = [t \in Threads |-> "idle"]
    /\ tNow = [t \in Threads |-> 0]
    /\ tTmp = [t \in Threads |-> <<>>]
    /\ tWake = [t \in Threads |-> 0]
    /\ tCount = [t \in Threads |-> 0]

ThreadsNext ==
    \/ \E t \in Threads : TCall(t)
    \/ \E t \in Threads : TNow(t)
    \/ \E t \in Threads : TFilter(t)
    \/ \E t \in Threads : TAssign(t)
    \/ \E t \in Threads : TCheck(t)
    \/ \E t \in Threads : TWake(t)
    \/ \E t \in Threads : TAppend(t)
    \/ TTick

SpecThreads == ThreadsInit /\ [][ThreadsNext]_vars

\* C8: whatever the interleaving, no rolling window of `period` holds more
\* than `calls` admissions, and no recorded timestamp that is still inside
\* the window is missing from the limiter's list.
C8_ThreadSafe ==
    /\ Spaced(tLog, tCalls, tPeriod)
    /\ WindowBounded(tLog, tCalls, tPeriod)
    /\ \A i \in 1..Len(tLog) :
           tClock - tLog[i] < tPeriod => Count(tTs, tLog[i]) >= Count(tLog, tLog[i])

\* The two halves of C8, apart.
C8_RateBoundedUnderThreads ==
    Spaced(tLog, tCalls, tPeriod) /\ WindowBounded(tLog, tCalls, tPeriod)

C8_NoTimestampLost ==
    \A i \in 1..Len(tLog) :
        tClock - tLog[i] < tPeriod => Count(tTs, tLog[i]) >= Count(tLog, tLog[i])

(***************************************************************************)
(* A MedKit and an AsyncMedKit side by side (SpecPair)                     *)
(***************************************************************************)
MaxPairCalls == 2   \* searches issued to the pair

\* What one search did: how it ended, what it returned, and the cache after it.
SearchOutcome(out, res, c) == [out |-> out, result |-> res, cache |-> c]

\* lru_cache: a hit needs the decorator (MedKit only) and an entry.
Hit(kind, c, m) == kind = "MedKit" /\ c[m] # NoVal

\* lru_cache stores what the method returned, nothing when it raised;
\* AsyncMedKit's methods are not decorated.
Keep(kind, c, m, res) ==
    IF kind = "MedKit" /\ res.st = "return" THEN [c EXCEPT ![m] = Value(res)] ELSE c

\* An exception that search's `except MedKitError` does not catch.
Escapes(res) == res.st = "raise" /\ res.exc # "MedKitError"

\* search(query) of a client of the given kind, whose cache is c, when the
\* three providers answer resp: drug, then papers, then trials, each behind
\* `except MedKitError`, then the SearchResults constructor.
SearchOf(kind, c, resp) ==
    LET rD == IF Hit(kind, c, "drug") THEN Return(c["drug"]) ELSE resp["openfda"].res
        cD == Keep(kind, c, "drug", rD)
        dr == IF rD.st = "return" THEN <<Value(rD)>> ELSE <<>>
        sD == IF rD.st = "return" THEN <<"openfda">> ELSE <<>>
        rP == IF Hit(kind, cD, "papers") THEN Return(cD["papers"])
              ELSE PapersBody(resp["pubmed"].res)
        cP == Keep(kind, cD, "papers", rP)
        pa == IF rP.st = "return" THEN Value(rP) ELSE List(<<>>)
        sP == IF rP.st = "return" /\ Truthy(pa) THEN Append(sD, "pubmed") ELSE sD
        rT == IF Hit(kind, cP, "trials") THEN Return(cP["trials"])
              ELSE resp["clinicaltrials"].res
        cT == Keep(kind, cP, "trials", rT)
        tr == IF rT.st = "return" THEN Value(rT) ELSE List(<<>>)
        sT == IF rT.st = "return" /\ Truthy(tr) THEN Append(sP, "clinicaltrials") ELSE sP
    IN  IF Escapes(rD) THEN SearchOutcome("raised", NoResult, cD)
        ELSE IF Escapes(rP) THEN SearchOutcome("raised", NoResult, cP)
        ELSE IF Escapes(rT) THEN SearchOutcome("raised", NoResult, cT)
        ELSE IF Valid(dr, pa, tr)
        THEN SearchOutcome("returned", SearchResults(dr, pa, tr, SearchMetadata(sT)), cT)
        ELSE SearchOutcome("raised", NoResult, cT)

\* What the caller sees of a search.
Seen(o) == [out |-> o.out, result |-> o.result]

NoOutcome == Seen(SearchOutcome("none", NoResult, <<>>))

PairInit ==
    /\ ClientOff
    /\ LimInit
    /\ ThrOff
    /\ AskOff
    /\ SynOff
    /\ MoreOff
    /\ pKinds \in [DefaultProviders -> {"builtin", "plugin"}]
    /\ pCache = [m \in Methods |-> NoVal]
    /\ pSync = NoOutcome
    /\ pAsync = NoOutcome
    /\ pCalls = 0

\* The same search call on both clients, the providers answering both alike.
PairSearch ==
    /\ pCalls < MaxPairCalls
    /\ pCalls' = pCalls + 1
    /\ \E bD \in Behaviours("openfda", pKinds["openfda"]),
          bP \in Behaviours("pubmed", pKinds["pubmed"]),
          bT \in Behaviours("clinicaltrials", pKinds["clinicaltrials"]) :
         LET resp == [n \in DefaultProviders |->
                         CASE n = "openfda" -> bD [] n = "pubmed" -> bP [] OTHER -> bT]
         IN /\ pSync' = Seen(SearchOf("MedKit", pCache, resp))
            /\ pAsync' = Seen(SearchOf("AsyncMedKit", [m \in Methods |-> NoVal], resp))
            /\ pCache' = SearchOf("MedKit", pCache, resp).cache
    /\ UNCHANGED pKinds
    /\ UNCHANGED <<clientVars, limVars, thrVars, askVars, synVars, moreVars>>

PairNext == PairSearch

SpecPair == PairInit /\ [][PairNext]_vars

\* C12: for every call of the sequence, MedKit and AsyncMedKit end alike and
\* return the same records per category and the same sources and
\* offline_providers.
C12_ClientsAgree ==
    /\ pSync.out = pAsync.out
    /\ pSync.result = pAsync.result

\* The first call of a sequence alone: nothing is cached yet.
C12_FirstCallsAgree ==
    pCalls <= 1 => (pSync.out = pAsync.out /\ pSync.result = pAsync.result)

(***************************************************************************)
(* Text, as Python handles it: a string is a sequence of characters        *)
(***************************************************************************)
MaxWords == 2   \* words of the questions built from Vocabulary

\* str.lower(), on the capitals the questions below contain.
LowerChar(c) == CASE c = "W" -> "w" [] c = "S" -> "s" [] c = "A" -> "a" [] OTHER -> c

Lower(s) == [i \in 1..Len(s) |-> LowerChar(s[i])]

\* s.startswith(k)
StartsWith(s, k) == Len(k) <= Len(s) /\ SubSeq(s, 1, Len(k)) = k

Drop(s, n) == SubSeq(s, n + 1, Len(s))

\* k in s
In(k, s) == \E i \in 0..Len(s) : StartsWith(Drop(s, i), k)

\* s.find(k) + 1: where k first occurs in s (0: nowhere).
Find(s, k) ==
    LET at == { i \in 1..Len(s) + 1 : StartsWith(Drop(s, i - 1), k) }
    IN IF at = {} THEN 0 ELSE CHOOSE i \in at : \A j \in at : i <= j

RECURSIVE Replace(_, _, _)
\* s.replace(old, new): leftmost occurrences, not overlapping (old is not empty).
Replace(s, old, new) ==
    IF Find(s, old) = 0 THEN s
    ELSE SubSeq(s, 1, Find(s, old) - 1) \o new
         \o Replace(Drop(s, Find(s, old) - 1 + Len(old)), old, new)

\* The first alternative of the pattern that matches at the start of s (0: none).
FirstMatch(alts, s) ==
    LET m == { a \in 1..Len(alts) : StartsWith(s, alts[a]) }
    IN IF m = {} THEN 0 ELSE CHOOSE a \in m : \A b \in m : a <= b

\* Where the pattern first matches in s (0: nowhere).
Search(alts, s) ==
    LET at == { i \in 1..Len(s) : FirstMatch(alts, Drop(s, i - 1)) # 0 }
    IN IF at = {} THEN 0 ELSE CHOOSE i \in at : \A j \in at : i <= j

RECURSIVE Sub(_, _)
\* re.sub(pattern, "", s) for a pattern that is an ordered alternation of
\* literals: scanning from the left, every match is deleted.
Sub(alts, s) ==
    IF Search(alts, s) = 0 THEN s
    ELSE LET i == Search(alts, s)
             m == alts[FirstMatch(alts, Drop(s, i - 1))]
         IN SubSeq(s, 1, i - 1) \o Sub(alts, Drop(s, i - 1 + Len(m)))

\* s.lstrip(chars)
LStrip(s, chars) ==
    LET keep == { i \in 1..Len(s) : s[i] \notin chars }
    IN IF keep = {} THEN <<>>
       ELSE Drop(s, (CHOOSE i \in keep : \A j \in keep : i <= j) - 1)

\* s.rstrip(chars)
RStrip(s, chars) ==
    LET keep == { i \in 1..Len(s) : s[i] \notin chars }
    IN IF keep = {} THEN <<>>
       ELSE SubSeq(s, 1, CHOOSE i \in keep : \A j \in keep : i >= j)

\* s.strip(chars); s.strip() strips white space.
StripChars(s, chars) == RStrip(LStrip(s, chars), chars)

Strip(s) == StripChars(s, {" "})

\* s.split(sep)[0]: s up to the first sep, all of s when there is none.
Before(s, sep) ==
    IF Find(s, sep) = 0 THEN s ELSE SubSeq(s, 1, Find(s, sep) - 1)

\* s.split(sep)[1], for an s that contains sep: what lies between the first
\* sep and the next one (or the end of s).
Second(s, sep) == Before(Drop(s, Len(Before(s, sep)) + Len(sep)), sep)

(***************************************************************************)
(* AskEngine (medkit/ask_engine.py)                                        *)
(***************************************************************************)
\* drug_keywords
DrugKeywords == <<
    <<"w", "h", "a", "t", " ", "i", "s">>,
    <<"m", "e", "c", "h", "a", "n", "i", "s", "m">>,
    <<"d", "o", "s", "e">>,
    <<"d", "o", "s", "a", "g", "e">>,
    <<"s", "i", "d", "e", " ", "e", "f", "f", "e", "c", "t">>,
    <<"r", "x">> >>

\* condition_keywords
ConditionKeywords == <<
    <<"s", "u", "m", "m", "a", "r", "y">>,
    <<"o", "v", "e", "r", "v", "i", "e", "w">>,
    <<"t", "r", "e", "a", "t", "m", "e", "n", "t", "s", " ", "f", "o", "r">>,
    <<"s", "t", "a", "t", "u", "s", " ", "o", "f">> >>

\* any(w in query_lower for w in keywords)
AnyIn(keywords, q) == \E i \in 1..Len(keywords) : In(keywords[i], q)

\* AskEngine._determine_intent
DetermineIntent(question) ==
    LET query_lower == Lower(question)
    IN IF AnyIn(DrugKeywords, query_lower) THEN "explain_drug"
       ELSE IF AnyIn(ConditionKeywords, query_lower) THEN "summarize_condition"
       ELSE "synthesize"

\* stop_patterns, each pattern written out as its alternatives in order.
StopPatterns == <<
    <<<<"w", "h", "a", "t", " ", "i", "s", " ", "t", "h", "e", " ", "c", "l", "i", "n", "i", "c", "a", "l", " ", "s", "t", "a", "t", "u", "s", " ", "o", "f">>, <<"w", "h", "a", "t", " ", "a", "r", "e", " ", "t", "h", "e", " ", "c", "l", "i", "n", "i", "c", "a", "l", " ", "s", "t", "a", "t", "u", "s", " ", "o", "f">>>>,
    <<<<"w", "h", "a", "t", " ", "i", "s", " ", "t", "h", "e", " ", "s", "t", "a", "t", "u", "s", " ", "o", "f">>, <<"w", "h", "a", "t", " ", "a", "r", "e", " ", "t", "h", "e", " ", "s", "t", "a", "t", "u", "s", " ", "o", "f">>>>,
    <<<<"w", "h", "a", "t", " ", "i", "s", " ", "c", "l", "i", "n", "i", "c", "a", "l", " ", "t", "r", "i", "a", "l", "s", " ", "f", "o", "r">>, <<"w", "h", "a", "t", " ", "a", "r", "e", " ", "c", "l", "i", "n", "i", "c", "a", "l", " ", "t", "r", "i", "a", "l", "s", " ", "f", "o", "r">>>>,
    <<<<"w", "h", "a", "t", " ", "i", "s">>, <<"w", "h", "a", "t", " ", "a", "r", "e">>, <<"w", "h", "a", "t", " ", "i", "s", " ", "a", "r", "e">>>>,
    <<<<"c", "l", "i", "n", "i", "c", "a", "l", " ", "s", "t", "a", "t", "u", "s", " ", "o", "f">>>>,
    <<<<"c", "l", "i", "n", "i", "c", "a", "l", " ", "t", "r", "i", "a", "l", "s", " ", "f", "o", "r">>>>,
    <<<<"o", "v", "e", "r", "v", "i", "e", "w", " ", "o", "f">>>>,
    <<<<"s", "u", "m", "m", "a", "r", "y", " ", "o", "f">>>>,
    <<<<"i", "n", "f", "o", "r", "m", "a", "t", "i", "o", "n", " ", "o", "n">>>>,
    <<<<"t", "e", "l", "l", " ", "m", "e", " ", "a", "b", "o", "u", "t">>>>,
    <<<<"r", "e", "s", "e", "a", "r", "c", "h", " ", "f", "o", "r">>>>,
    <<<<"p", "a", "p", "e", "r", "s", " ", "o", "n">>>>,
    <<<<"t", "r", "i", "a", "l", "s", " ", "f", "o", "r">>>> >>

RECURSIVE StripPatterns(_, _)
\* for pattern in stop_patterns: q = re.sub(pattern, "", q).strip()
\* (x is the value of q after pattern i, computed before the next pattern
\* is applied to it.)
StripPatterns(q, i) ==
    IF i > Len(StopPatterns) THEN q
    ELSE CHOOSE r \in { StripPatterns(x, i + 1) :
                            x \in { Strip(Sub(StopPatterns[i], q)) } } : TRUE

\* prepositions
Prepositions == <<
    <<" ", "f", "o", "r", " ">>,
    <<" ", "i", "n", " ">>,
    <<" ", "w", "i", "t", "h", " ">>,
    <<" ", "a", "s", " ">> >>

StatusWords == <<
    <<"s", "t", "a", "t", "u", "s">>,
    <<"o", "v", "e", "r", "v", "i", "e", "w">>,
    <<"s", "u", "m", "m", "a", "r", "y">> >>

\* len(parts[0].strip()) < 3
ShortPart == 3

\* The body of `if sep in q:` for one preposition.
SplitOn(q, sep) ==
    LET p0 == Before(q, sep)
        p1 == Second(q, sep)
    IN IF AnyIn(StatusWords, p0) THEN p1
       ELSE IF Len(Strip(p0)) < ShortPart THEN p1
       ELSE p0 \o <<" ">> \o p1

RECURSIVE SplitPrepositions(_, _)
\* for sep in prepositions: if sep in q: ...
SplitPrepositions(q, i) ==
    IF i > Len(Prepositions) THEN q
    ELSE SplitPrepositions(IF In(Prepositions[i], q) THEN SplitOn(q, Prepositions[i]) ELSE q,
                           i + 1)

\* The alternatives of ^(?:the|of|a|an)\s+, each with the white space that
\* must follow it.
LeadingWords == <<
    <<"t", "h", "e", " ">>,
    <<"o", "f", " ">>,
    <<"a", " ">>,
    <<"a", "n", " ">> >>

\* re.sub(r"^(?:the|of|a|an)\s+", "", q): at the start of q only, the word
\* and all the white space behind it.
StripLeading(q) ==
    IF FirstMatch(LeadingWords, q) = 0 THEN q
    ELSE LStrip(Drop(q, Len(LeadingWords[FirstMatch(LeadingWords, q)])), {" "})

\* AskEngine._extract_search_terms
ExtractSearchTerms(question) ==
    LET q0 == Replace(Lower(question), <<"c", "l", "i", "n", "i", "a", "l">>, <<"c", "l", "i", "n", "i", "c", "a", "l">>)
        q1 == StripPatterns(q0, 1)
        q2 == SplitPrepositions(q1, 1)
        q3 == StripLeading(q2)
    IN Strip(StripChars(q3, {"?", " "}))

(***************************************************************************)
(* Questions                                                               *)
(***************************************************************************)
Vocabulary == {
    <<"d", "o", "s", "e">>,
    <<"o", "v", "e", "r", "d", "o", "s", "e", "d">>,
    <<"r", "x">>,
    <<"m", "a", "r", "x", "i", "s", "m">>,
    <<"s", "u", "m", "m", "a", "r", "y">>,
    <<"o", "v", "e", "r", "v", "i", "e", "w">>,
    <<"a", "s", "p", "i", "r", "i", "n">>,
    <<"f", "o", "r">> }

RECURSIVE Join(_)
\* " ".join(words)
Join(words) ==
    IF words = <<>> THEN <<>>
    ELSE IF Len(words) = 1 THEN words[1]
    ELSE words[1] \o <<" ">> \o Join(Tail(words))

Sentences == {
    <<"i", "n", "d", "u", "s", "t", "r", "i", "a", "l", " ", "a", "c", "c", "i", "d", "e", "n", "t", "s">>,
    <<"c", "l", "i", "n", "i", "c", "a", "l", " ", "t", "r", "i", "a", "l", " ", "f", "o", "r", " ", "a", "s", "p", "i", "r", "i", "n">>,
    <<"h", "e", "l", "l", "o", " ", "h", "o", "w", " ", "a", "r", "e", " ", "y", "o", "u">>,
    <<"S", "u", "m", "m", "a", "r", "i", "z", "e", " ", "c", "l", "i", "n", "i", "c", "a", "l", " ", "t", "r", "i", "a", "l", "s">>,
    <<"S", "u", "m", "m", "a", "r", "i", "z", "e", " ", "d", "r", "u", "g", " ", "w", "a", "r", "n", "i", "n", "g", " ", "f", "o", "r", " ", "a", "s", "p", "i", "r", "i", "n">>,
    <<"s", "u", "m", "m", "a", "r", "y", " ", "o", "v", "e", "r", "v", "i", "e", "w", " ", "d", "o", "s", "e">>,
    <<"W", "h", "a", "t", " ", "i", "s", " ", "r", "e", "s", "e", "a", "r", "c", "h", " ", "o", "n", " ", "p", "r", "o", "f", "i", "t", "?">>,
    <<"a", "s", "p", "i", "r", "i", "n", " ", "f", "o", "r", " ", "p", "a", "i", "n", " ", "f", "o", "r", " ", "c", "h", "i", "l", "d", "r", "e", "n">>,
    <<"s", "o", "m", "e", "w", "h", "a", "t", " ", "i", "s", " ", "p", "r", "o", "f", "i", "t">>,
    <<"s", "t", "a", "t", "u", "s", " ", "o", "f", " ", "a", "s", "p", "i", "r", "i", "n">>,
    <<"c", "l", "i", "n", "i", "a", "l", " ", "p", "r", "o", "f", "i", "t">>,
    <<"W", "h", "a", "t", " ", "i", "s", " ", "t", "h", "e", " ", "c", "l", "i", "n", "i", "a", "l", " ", "s", "t", "a", "t", "u", "s", " ", "f", "o", "r", " ", "m", "a", "l", "i", "g", "n", "a", "n", "t", " ", "t", "u", "m", "o", "r", "s">>,
    <<"t", "h", "e", " ", "d", "o", "s", "e", " ", "o", "f", " ", "a", "s", "p", "i", "r", "i", "n", " ", "i", "n", " ", "c", "h", "i", "l", "d", "r", "e", "n">> }

\* The questions asked: the sentences above, the empty string, and every
\* question of up to MaxWords words of Vocabulary.
Texts == Sentences \cup { Join(w) : w \in SeqsUpTo(Vocabulary, MaxWords) }

(***************************************************************************)
(* ask: MedKit.ask, AsyncMedKit.ask, AskEngine.ask_sync, AskEngine.ask     *)
(***************************************************************************)
\* What class AskEngine defines.
AskEngineAttributes ==
    {"__init__", "_determine_intent", "_extract_search_terms", "ask", "ask_sync"}

ClientAsks == {"MedKit.ask", "AsyncMedKit.ask"}

EngineAsks == {"AskEngine.ask_sync", "AskEngine.ask"}

\* How client.search(search_query) ends for the engine: it returns results
\* with or without drugs, or it raises.
SearchEnds == {"drugs", "nodrugs", "raises"}

\* The if/elif/else of MedKit.ask and AsyncMedKit.ask: the operation an
\* intent selects.
Dispatch(intent) ==
    CASE intent = "trials" -> "trials"
      [] intent = "papers" -> "papers"
      [] intent = "explain" -> "explain_drug"
      [] intent = "summary" -> "summary"
      [] OTHER -> "search"

\* The if/elif/else of AskEngine.ask_sync and AskEngine.ask: the type of the
\* value built from the search results.
Answer(intent, hasDrugs) ==
    IF intent = "explain_drug" /\ hasDrugs THEN "DrugExplanation"
    ELSE IF intent = "summarize_condition" THEN "ConditionSummary"
    ELSE "ClinicalConclusion"

AskInit ==
    /\ ClientOff
    /\ LimInit
    /\ ThrOff
    /\ PairOff
    /\ SynOff
    /\ MoreOff
    /\ askQuestion \in Texts
    /\ askEntry = "none"
    /\ askPc = "idle"
    /\ askIntent = "none"
    /\ askTerms = <<>>
    /\ askInvoked = <<>>
    /\ askDrugs = FALSE
    /\ askOutcome = "none"
    /\ askValue = "none"

\* MedKit.ask(question) and AsyncMedKit.ask(question): the first statement
\* looks up AskEngine.route, which the class does not define, so the call
\* ends there with an AttributeError.
ClientAsk(e) ==
    /\ askPc \in {"idle", "done"}
    /\ e \in ClientAsks
    /\ "route" \notin AskEngineAttributes
    /\ askEntry' = e
    /\ askIntent' = "none"
    /\ askTerms' = <<>>
    /\ askInvoked' = <<>>
    /\ askDrugs' = FALSE
    /\ askOutcome' = "raised"
    /\ askValue' = "AttributeError"
    /\ askPc' = "done"
    /\ UNCHANGED askQuestion
    /\ UNCHANGED <<clientVars, limVars, thrVars, pairVars, synVars, moreVars>>

\* AskEngine.ask_sync(query) and AskEngine.ask(query).
EngineAsk(e) ==
    /\ askPc \in {"idle", "done"}
    /\ e \in EngineAsks
    /\ \E r \in SearchEnds :
         LET intent == DetermineIntent(askQuestion)
             search_query == ExtractSearchTerms(askQuestion)
         IN /\ askEntry' = e
            /\ askIntent' = intent
            /\ askTerms' = search_query
            /\ askInvoked' = <<[op |-> "search", arg |-> search_query]>>
            /\ askDrugs' = (r = "drugs")
            /\ askOutcome' = IF r = "raises" THEN "raised" ELSE "returned"
            /\ askValue' = IF r = "raises" THEN "Exception"
                           ELSE Answer(intent, r = "drugs")
    /\ askPc' = "done"
    /\ UNCHANGED askQuestion
    /\ UNCHANGED <<clientVars, limVars, thrVars, pairVars, synVars, moreVars>>

AskNext ==
    \/ \E e \in ClientAsks : ClientAsk(e)
    \/ \E e \in EngineAsks : EngineAsk(e)

SpecAsk == AskInit /\ [][AskNext]_vars

(***************************************************************************)
(* Properties of the classification and the cleaning                       *)
(***************************************************************************)
\* A character of a word (\w); the questions hold letters, blanks and "?".
WordChar(c) == c \notin {" ", "?"}

\* k occurs in s at position i as whole words: no word character touches it
\* on either side.
WholeWordAt(s, k, i) ==
    /\ StartsWith(Drop(s, i - 1), k)
    /\ i = 1 \/ ~WordChar(s[i - 1])
    /\ i + Len(k) - 1 = Len(s) \/ ~WordChar(s[i + Len(k)])

HasWord(s, k) == \E i \in 1..Len(s) : WholeWordAt(s, k, i)

\* The matches of an intent's keywords in s, at word boundaries.
Matches(keywords, s) ==
    { <<k, i>> \in (1..Len(keywords)) \X (1..Len(s)) : WholeWordAt(s, keywords[k], i) }

Score(keywords, s) == Cardinality(Matches(keywords, s))

KeywordFree(s) == Score(DrugKeywords, s) = 0 /\ Score(ConditionKeywords, s) = 0

\* The engine classified the question asked.
Classified == askPc = "done" /\ askEntry \in EngineAsks

\* What a question without any keyword is classified as.
Fallback == DetermineIntent(<<>>)

\* C13: classification matches keywords only at word boundaries: a question
\* in which keywords occur only inside longer words, or not at all, is
\* classified as a question without keywords is.
C13_WordBoundaries ==
    (Classified /\ KeywordFree(Lower(askQuestion))) => askIntent = Fallback

\* C14: the intent returned is the one whose keywords match most often; when
\* the counts are equal and not zero the one earlier in the priority order
\* (explain first) is returned; when no keyword matches the result is the
\* fallback.
C14_HighestScoreWins ==
    Classified =>
        LET explain == Score(DrugKeywords, Lower(askQuestion))
            summary == Score(ConditionKeywords, Lower(askQuestion))
        IN askIntent = IF explain = 0 /\ summary = 0 THEN Fallback
                       ELSE IF explain >= summary THEN "explain_drug"
                       ELSE "summarize_condition"

\* The closed enumeration of intents.
Intents == {"explain", "trials", "papers", "summary", "search"}

\* C15: classification is total and closed: every question asked, the empty
\* one included, is classified without an exception as a member of Intents,
\* and as search when it holds no keyword.
C15_TotalAndClosed ==
    askPc = "done" =>
        /\ askIntent \in Intents
        /\ KeywordFree(Lower(askQuestion)) => askIntent = "search"

\* The noise phrases: every alternative of every stop pattern.
NoisePhrases == UNION { { StopPatterns[p][a] : a \in 1..Len(StopPatterns[p]) } :
                        p \in 1..Len(StopPatterns) }

\* The words the cleaning drops by design: the prepositions it splits on and
\* the leading words it strips.
NoiseWords == { Strip(Prepositions[i]) : i \in 1..Len(Prepositions) }
              \cup { Strip(LeadingWords[i]) : i \in 1..Len(LeadingWords) }

\* The words of s in order: its maximal runs of word characters.
Words(s) ==
    LET starts == { i \in 1..Len(s) : WordChar(s[i]) /\ (i = 1 \/ ~WordChar(s[i - 1])) }
        start(n) == CHOOSE i \in starts : Cardinality({ j \in starts : j < i }) = n - 1
        end(i) == CHOOSE j \in i..Len(s) :
                      /\ \A m \in i..j : WordChar(s[m])
                      /\ j = Len(s) \/ ~WordChar(s[j + 1])
    IN [n \in 1..Cardinality(starts) |-> SubSeq(s, start(n), end(start(n)))]

\* s with every noise phrase that occurs as whole words blanked out.
WithoutNoise(s) ==
    LET covered == { j \in 1..Len(s) :
                       \E k \in NoisePhrases : \E i \in 1..j :
                           WholeWordAt(s, k, i) /\ j < i + Len(k) }
    IN [j \in 1..Len(s) |-> IF j \in covered THEN " " ELSE s[j]]

IsContent(w) == w \notin NoiseWords

\* The content words of s: its words outside every noise phrase.
ContentWords(s) == SelectSeq(Words(WithoutNoise(s)), IsContent)

\* C16: cleaning removes the noise phrases and nothing else: no noise phrase
\* remains, every other word of the question is in the result, unchanged and
\* in the same order, and the cleaned "What is research on profit?" holds
\* "profit" and neither "what is" nor "research on".
C16_CleaningKeepsContent ==
    Classified =>
        /\ \A k \in NoisePhrases : ~HasWord(askTerms, k)
        /\ SelectSeq(Words(askTerms), IsContent) = ContentWords(Lower(askQuestion))
        /\ askQuestion = <<"W", "h", "a", "t", " ", "i", "s", " ", "r", "e", "s", "e", "a", "r", "c", "h", " ", "o", "n", " ", "p", "r", "o", "f", "i", "t", "?">> =>
             /\ In(<<"p", "r", "o", "f", "i", "t">>, askTerms)
             /\ ~In(<<"w", "h", "a", "t", " ", "i", "s">>, askTerms)
             /\ ~In(<<"r", "e", "s", "e", "a", "r", "c", "h", " ", "o", "n">>, askTerms)

\* The type of the value each client operation returns.
ResultType(op) ==
    CASE op = "trials" -> "List[ClinicalTrial]"
      [] op = "papers" -> "List[ResearchPaper]"
      [] op = "explain_drug" -> "DrugExplanation"
      [] op = "summary" -> "ConditionSummary"
      [] op = "search" -> "SearchResults"

\* C17: ask classifies the question, cleans it, invokes exactly the one
\* operation the intent selects, with the cleaned text, and returns what
\* that operation returns (or raises what it raises).
C17_AskInvokesOneOperation ==
    askPc = "done" =>
        /\ askInvoked = <<[op |-> Dispatch(askIntent), arg |-> askTerms]>>
        /\ askOutcome = "returned" => askValue = ResultType(Dispatch(askIntent))
        /\ askOutcome = "raised" => askValue = "Exception"

(***************************************************************************)
(* IntelligenceEngine.synthesize (medkit/intelligence.py)                  *)
(*                                                                         *)
(* Scores are counted in thousandths (0.15 is 150); the evidence_score of  *)
(* a conclusion, rounded to two decimals, in hundredths (1.0 is 100).      *)
(***************************************************************************)
MaxDrugs == 1     \* most drugs passed to synthesize
MaxPapers == 2    \* most papers passed
MaxTrials == 9    \* most trials passed
MaxYears == 1     \* new years that pass

\* datetime.now().year when the model starts.
FirstYear == 2026

\* The years of the papers passed (NoneYear: the paper has none).
PaperYears == {NoneYear, 2023, 2025}

\* The phase lists of the trials passed, as the registry writes them.
TrialPhases == {
    << <<"P", "H", "A", "S", "E", "3">> >>,
    << <<"P", "H", "A", "S", "E", "2">> >>,
    << <<"N", "A">> >> }

\* p3_regex, PHASE[ \-]?(3|III), as the texts it matches (the phase texts
\* above are upper case, so IGNORECASE changes nothing).
P3Regex == {
    <<"P", "H", "A", "S", "E", "3">>, <<"P", "H", "A", "S", "E", " ", "3">>, <<"P", "H", "A", "S", "E", "-", "3">>,
    <<"P", "H", "A", "S", "E", "I", "I", "I">>, <<"P", "H", "A", "S", "E", " ", "I", "I", "I">>, <<"P", "H", "A", "S", "E", "-", "I", "I", "I">> }

\* p2_regex, PHASE[ \-]?(2|II)
P2Regex == {
    <<"P", "H", "A", "S", "E", "2">>, <<"P", "H", "A", "S", "E", " ", "2">>, <<"P", "H", "A", "S", "E", "-", "2">>,
    <<"P", "H", "A", "S", "E", "I", "I">>, <<"P", "H", "A", "S", "E", " ", "I", "I">>, <<"P", "H", "A", "S", "E", "-", "I", "I">> }

\* regex.search(p)
RegexSearch(regex, p) == \E f \in regex : In(f, p)

\* any(regex.search(p) for p in phases)
AnyPhase(regex, phases) == \E i \in 1..Len(phases) : RegexSearch(regex, phases[i])

\* The list a trial is appended to: p3_trials, else p2_trials, else neither.
TrialTier(phases) ==
    IF AnyPhase(P3Regex, phases) THEN "p3"
    ELSE IF AnyPhase(P2Regex, phases) THEN "p2"
    ELSE "none"

\* The tier of every phase list passed.
TierOf == [t \in TrialPhases |-> TrialTier(t)]

RECURSIVE CountOver(_, _)
\* How many records of the kinds in K a list holds.
CountOver(list, K) ==
    IF K = {} THEN 0
    ELSE LET k == CHOOSE x \in K : TRUE
         IN list[k] + CountOver(list, K \ {k})

\* len(list)
Size(list) == CountOver(list, DOMAIN list)

FdaBonus == 150
P3Base == 250
P3Each == 50
P3Cap == 450
P2Base == 100
P2Each == 20
P2Cap == 200
RecentWindow == 3
VolumeEach == 15
VolumeCap == 250
RecentEach == 30
RecentCap == 100
One == 1000
DrugNames == 2
KeepFindings == 4

Least(a, b) == IF a <= b THEN a ELSE b

\* len(p3_trials), len(p2_trials)
TrialsOfTier(trialList, tier) ==
    CountOver(trialList, { t \in DOMAIN trialList : TierOf[t] = tier })

\* len(recent_papers): p.year and (current_year - p.year <= 3)
RecentPapers(paperList, year) ==
    CountOver(paperList, { y \in DOMAIN paperList :
                          y # NoneYear /\ y # 0 /\ year - y <= RecentWindow })

\* The local `score` of synthesize when it reaches the ladder.
RawScore(ndrugs, paperList, trialList, year) ==
    LET p3 == TrialsOfTier(trialList, "p3")
        p2 == TrialsOfTier(trialList, "p2")
        fda == IF ndrugs > 0 THEN FdaBonus ELSE 0
        p3_score == IF p3 > 0 THEN Least(P3Base + p3 * P3Each, P3Cap) ELSE 0
        p2_score == IF p2 > 0 THEN Least(P2Base + p2 * P2Each, P2Cap) ELSE 0
        volume_bonus == Least((Size(trialList) + Size(paperList)) * VolumeEach, VolumeCap)
        recency_bonus == Least(RecentPapers(paperList, year) * RecentEach, RecentCap)
    IN fda + p3_score + p2_score + volume_bonus + recency_bonus

\* The local `findings`.
Findings(ndrugs, paperList, trialList, year) ==
    LET p3 == TrialsOfTier(trialList, "p3")
        p2 == TrialsOfTier(trialList, "p2")
        recent == RecentPapers(paperList, year)
    IN (IF ndrugs > 0 THEN << <<"FDA data available for", Least(ndrugs, DrugNames)>> >> ELSE <<>>)
       \o (IF p3 > 0 THEN << <<"Phase III clinical trials", p3>> >> ELSE <<>>)
       \o (IF p2 > 0 THEN << <<"mid-stage (Phase II) studies", p2>> >> ELSE <<>>)
       \o (IF recent > 0 THEN << <<"High recent academic activity", recent>> >> ELSE <<>>)

\* The ladder: the template of summary and recommendation a score selects.
Rung(score) ==
    IF score >= 700 THEN "Highly-validated"
    ELSE IF score >= 500 THEN "Strong"
    ELSE IF score >= 300 THEN "Emerging"
    ELSE IF score >= 150 THEN "Preliminary"
    ELSE "Sparse"

\* min(score, 1.0) left out.
ClampForgotten(score) == score

\* min(score, 1.0)
Clamp(score) == Least(score, One)

\* round(x, 2), in hundredths.  A score half-way between two hundredths has
\* no exact binary value; which way it rounds depends on the error the sum
\* has accumulated, given here by tieUp.
Round2(x, tieUp) ==
    IF x % 10 = 5 THEN (x \div 10) + (IF tieUp THEN 1 ELSE 0)
    ELSE (x + 5) \div 10

\* IntelligenceEngine.synthesize(query, drugs, papers, trials)
Synthesize(ndrugs, paperList, trialList, year, tieUp) ==
    LET score == RawScore(ndrugs, paperList, trialList, year)
        findings == Findings(ndrugs, paperList, trialList, year)
    IN [summary |-> Rung(score),
        evidence_score |-> Round2(Clamp(score), tieUp),
        key_findings |-> SubSeq(findings, 1, Least(KeepFindings, Len(findings))),
        recommendation |-> Rung(score)]

SynInit ==
    /\ ClientOff
    /\ LimInit
    /\ ThrOff
    /\ PairOff
    /\ AskOff
    /\ MoreOff
    /\ synDrugs = 0
    /\ synPapers = [y \in PaperYears |-> 0]
    /\ synTrials = [t \in TrialPhases |-> 0]
    /\ synYear = FirstYear
    /\ synTieUp \in BOOLEAN
    /\ synResult = NoConclusion

\* The caller synthesizes what it holds.
CallSynthesize ==
    /\ synResult' = Synthesize(synDrugs, synPapers, synTrials, synYear, synTieUp)
    /\ UNCHANGED <<synDrugs, synPapers, synTrials, synYear, synTieUp>>
    /\ UNCHANGED <<clientVars, limVars, thrVars, pairVars, askVars, moreVars>>

\* The caller's lists change; the conclusion it held is dropped.
NewInputs(ndrugs, paperList, trialList) ==
    /\ synDrugs' = ndrugs
    /\ synPapers' = paperList
    /\ synTrials' = trialList
    /\ synResult' = NoConclusion
    /\ UNCHANGED <<synYear, synTieUp>>
    /\ UNCHANGED <<clientVars, limVars, thrVars, pairVars, askVars, moreVars>>

\* One more drug record.
AddDrug ==
    /\ synDrugs < MaxDrugs
    /\ NewInputs(synDrugs + 1, synPapers, synTrials)

\* One more paper, of year y.
AddPaper(y) ==
    /\ Size(synPapers) < MaxPapers
    /\ NewInputs(synDrugs, [synPapers EXCEPT ![y] = @ + 1], synTrials)

\* One more trial, with phase list t.
AddTrial(t) ==
    /\ Size(synTrials) < MaxTrials
    /\ NewInputs(synDrugs, synPapers, [synTrials EXCEPT ![t] = @ + 1])

TierRank(t) == CASE TierOf[t] = "p3" -> 2 [] TierOf[t] = "p2" -> 1 [] OTHER -> 0

\* A trial of phase list a is now of the later phase b.
RaiseTrial(a, b) ==
    /\ synTrials[a] > 0
    /\ TierRank(b) > TierRank(a)
    /\ NewInputs(synDrugs, synPapers, [synTrials EXCEPT ![a] = @ - 1, ![b] = @ + 1])

\* A paper dated a is now dated the later year b.
RaisePaper(a, b) ==
    /\ synPapers[a] > 0
    /\ a # NoneYear
    /\ b > a
    /\ NewInputs(synDrugs, [synPapers EXCEPT ![a] = @ - 1, ![b] = @ + 1], synTrials)

\* The year ends.
NewYear ==
    /\ synYear < FirstYear + MaxYears
    /\ synYear' = synYear + 1
    /\ UNCHANGED <<synDrugs, synPapers, synTrials, synTieUp, synResult>>
    /\ UNCHANGED <<clientVars, limVars, thrVars, pairVars, askVars, moreVars>>

SynNext ==
    \/ CallSynthesize
    \/ AddDrug
    \/ \E y \in PaperYears : AddPaper(y)
    \/ \E t \in TrialPhases : AddTrial(t)
    \/ \E a, b \in TrialPhases : RaiseTrial(a, b)
    \/ \E a, b \in PaperYears : RaisePaper(a, b)
    \/ NewYear

SpecSynth == SynInit /\ [][SynNext]_vars

\* The score of the lists held, before clamping and rounding.
ScoreNow == RawScore(synDrugs, synPapers, synTrials, synYear)

\* C18: for all lists of drugs, papers and trials the evidence score of the
\* conclusion returned lies in [0.0, 1.0].
C18_ScoreInUnitInterval ==
    synResult # NoConclusion =>
        synResult.evidence_score >= 0 /\ synResult.evidence_score <= 100

\* A conclusion returned for lists whose contributions add up to more than 1.0.
C18_Witness ==
    /\ synResult # NoConclusion
    /\ ScoreNow > One
    /\ synResult.evidence_score = 100

\* The lists passed to synthesize.
SynInputs == <<synDrugs, synPapers, synTrials>>

\* C19: synthesize is deterministic in its inputs: a call with the lists of
\* an earlier call returns the conclusion that call returned, whatever the
\* current year at either call.
C19_SameInputsSameConclusion ==
    [][(/\ synResult # NoConclusion
        /\ synResult' # NoConclusion
        /\ SynInputs' = SynInputs) => synResult' = synResult]_vars

\* The evidence score synthesize returns for the lists held.
EvidenceNow == Synthesize(synDrugs, synPapers, synTrials, synYear, synTieUp).evidence_score

\* C20: the evidence score never falls when a record is added to the lists
\* or when one record moves to a stronger tier (a later phase, a later
\* year), everything else, the current year included, staying as it is.
C20_ScoreMonotone ==
    [][(synYear' = synYear /\ SynInputs' # SynInputs) => EvidenceNow' >= EvidenceNow]_vars

\* C20, for added records only.
C20_AddingNeverLowers ==
    [][(/\ synYear' = synYear
        /\ synDrugs' >= synDrugs
        /\ \A y \in PaperYears : synPapers'[y] >= synPapers[y]
        /\ \A t \in TrialPhases : synTrials'[t] >= synTrials[t]) => EvidenceNow' >= EvidenceNow]_vars

(***************************************************************************)
(* IntelligenceEngine.correlate_entities (medkit/intelligence.py)          *)
(***************************************************************************)
MaxCorDrugs == 2    \* most drugs passed to correlate_entities
MaxCorTrials == 2   \* most trials passed

\* The DrugInfo records passed (brand_name, generic_name).
CorDrugRecords == {
    [brand_name |-> <<"A", "d", "v", "i", "l">>,
     generic_name |-> <<"i", "b", "u", "p", "r", "o", "f", "e", "n">>],
    [brand_name |-> <<"a", "s", "a">>,
     generic_name |-> <<"a", "s", "p", "i", "r", "i", "n">>] }

\* The ClinicalTrial records passed (nct_id, title, interventions, description).
CorTrialRecords == {
    [nct_id |-> "NCT1", title |-> <<"p", "a", "i", "n", " ", "s", "t", "u", "d", "y">>,
     interventions |-> << <<"i", "b", "u", "p", "r", "o", "f", "e", "n", " ", "t", "a", "b", "l", "e", "t", "s">> >>,
     description |-> <<>>],
    [nct_id |-> "NCT2", title |-> <<"A", "d", "v", "i", "l", " ", "i", "n", " ", "a", "d", "u", "l", "t", "s">>,
     interventions |-> << <<"p", "l", "a", "c", "e", "b", "o">> >>,
     description |-> <<>>],
    [nct_id |-> "NCT3", title |-> <<"c", "o", "l", "i", "t", "i", "s">>,
     interventions |-> << <<"a", "s", "a", "c", "o", "l">> >>,
     description |-> <<"a", "s", "p", "i", "r", "i", "n", " ", "a", "r", "m">>] }

\* drug_regex.search(text): \b(brand|generic)\b, IGNORECASE.
DrugRegexSearch(drug, text) ==
    \/ HasWord(Lower(text), Lower(drug.brand_name))
    \/ HasWord(Lower(text), Lower(drug.generic_name))

\* any(drug_regex.search(inter) for inter in trial.interventions)
InInterventions(drug, trial) ==
    \E i \in 1..Len(trial.interventions) : DrugRegexSearch(drug, trial.interventions[i])

\* The elements of seq at the positions in at, in order.
Pick(seq, at) ==
    [n \in 1..Cardinality(at) |->
        seq[CHOOSE i \in at : Cardinality({ j \in at : j < i }) = n - 1]]

\* related_trials of one drug
RelatedTrials(drug, trialList) ==
    LET at == { i \in 1..Len(trialList) : InInterventions(drug, trialList[i]) }
    IN [n \in 1..Cardinality(at) |-> Pick(trialList, at)[n].nct_id]

\* IntelligenceEngine.correlate_entities(drugs, trials): every drug assigns
\* mapping[drug.brand_name.lower()], a later drug over an earlier one.
CorrelateEntities(drugList, trialList) ==
    LET keys == { Lower(drugList[i].brand_name) : i \in 1..Len(drugList) }
        last(k) == CHOOSE i \in 1..Len(drugList) :
                      /\ Lower(drugList[i].brand_name) = k
                      /\ \A j \in 1..Len(drugList) :
                            Lower(drugList[j].brand_name) = k => j <= i
    IN [k \in keys |-> RelatedTrials(drugList[last(k)], trialList)]

CorInit ==
    /\ ClientOff
    /\ LimInit
    /\ ThrOff
    /\ PairOff
    /\ AskOff
    /\ SynOff
    /\ ExOff
    /\ HcOff
    /\ OpOff
    /\ CoOff
    /\ corDrugs \in SeqsUpTo(CorDrugRecords, MaxCorDrugs)
    /\ corTrials \in SeqsUpTo(CorTrialRecords, MaxCorTrials)
    /\ corPc = "idle"
    /\ corMapping = <<>>

\* A call of correlate_entities with the lists held.
Correlate ==
    /\ corPc = "idle"
    /\ corMapping' = CorrelateEntities(corDrugs, corTrials)
    /\ corPc' = "done"
    /\ UNCHANGED <<corDrugs, corTrials>>
    /\ UNCHANGED <<clientVars, limVars, thrVars, pairVars, askVars, synVars, exVars, hcVars, opVars, coVars>>

CorNext == Correlate

SpecCorrelate == CorInit /\ [][CorNext]_vars

\* The drug's brand or generic name is a whole word of the trial's title, of
\* one of its interventions or of its description.
NamedIn(drug, trial) ==
    \/ DrugRegexSearch(drug, trial.title)
    \/ InInterventions(drug, trial)
    \/ DrugRegexSearch(drug, trial.description)

\* C21: the mapping has an entry for exactly the drugs named in at least
\* one trial, and the entry of a drug holds exactly the identifiers of the
\* trials that name it in their title, interventions or description.
C21_CorrelateMatchesNamedTrials ==
    corPc = "done" =>
        LET named(d) == { i \in 1..Len(corTrials) : NamedIn(d, corTrials[i]) }
            matched == { i \in 1..Len(corDrugs) : named(corDrugs[i]) # {} }
        IN /\ DOMAIN corMapping = { Lower(corDrugs[i].brand_name) : i \in matched }
           /\ \A i \in matched :
                 { corMapping[Lower(corDrugs[i].brand_name)][n] :
                     n \in 1..Len(corMapping[Lower(corDrugs[i].brand_name)]) }
                 = { corTrials[t].nct_id : t \in named(corDrugs[i]) }

(***************************************************************************)
(* explain_drug (medkit/client.py)                                         *)
(***************************************************************************)
MaxExplainCalls == 2   \* explain_drug calls issued

\* A provider that was not called: the cache served its method.
NoAnswer == [down |-> FALSE, res |-> Raise("none")]

NoExplanation == [drug_info |-> NoVal, papers |-> NoVal, trials |-> NoVal]

\* DrugExplanation(drug_info=..., papers=..., trials=...)
DrugExplanation(d, p, t) == [drug_info |-> d, papers |-> p, trials |-> t]

\* pydantic's validation of DrugExplanation: drug_info: Optional[DrugInfo],
\* papers: List[ResearchPaper], trials: List[ClinicalTrial].
ValidExplanation(d, p, t) ==
    /\ d.kind \in {"record", "null"}
    /\ p.kind = "list"
    /\ t.kind = "list"

\* explain_drug(name) of a client of the given kind, whose cache is c, when
\* the three providers answer resp: drug, then papers, then trials, each
\* behind `except MedKitError`, then the DrugExplanation constructor.
ExplainOf(kind, c, resp) ==
    LET rD == IF Hit(kind, c, "drug") THEN Return(c["drug"]) ELSE resp["openfda"].res
        cD == Keep(kind, c, "drug", rD)
        dr == IF rD.st = "return" THEN Value(rD) ELSE PyNone
        rP == IF Hit(kind, cD, "papers") THEN Return(cD["papers"])
              ELSE PapersBody(resp["pubmed"].res)
        cP == Keep(kind, cD, "papers", rP)
        pa == IF rP.st = "return" THEN Value(rP) ELSE List(<<>>)
        rT == IF Hit(kind, cP, "trials") THEN Return(cP["trials"])
              ELSE resp["clinicaltrials"].res
        cT == Keep(kind, cP, "trials", rT)
        tr == IF rT.st = "return" THEN Value(rT) ELSE List(<<>>)
    IN  IF Escapes(rD) THEN SearchOutcome("raised", NoExplanation, cD)
        ELSE IF Escapes(rP) THEN SearchOutcome("raised", NoExplanation, cP)
        ELSE IF Escapes(rT) THEN SearchOutcome("raised", NoExplanation, cT)
        ELSE IF ValidExplanation(dr, pa, tr)
        THEN SearchOutcome("returned", DrugExplanation(dr, pa, tr), cT)
        ELSE SearchOutcome("raised", NoExplanation, cT)

\* The providers a call reaches: those whose method the cache does not serve.
\* (A method behind one that lets an exception escape is not reached either;
\* its answer is then ignored.)
Reached(kind, c, resp) ==
    [n \in DefaultProviders |->
        IF Hit(kind, c, MethodOf(n)) THEN NoAnswer ELSE resp[n]]

ExplainInit ==
    /\ ClientOff
    /\ LimInit
    /\ ThrOff
    /\ PairOff
    /\ AskOff
    /\ SynOff
    /\ CorOff
    /\ HcOff
    /\ OpOff
    /\ CoOff
    /\ exClient \in {"MedKit", "AsyncMedKit"}
    /\ exKinds \in [DefaultProviders -> {"builtin", "plugin"}]
    /\ exCache = [m \in Methods |-> NoVal]
    /\ exResp = [n \in DefaultProviders |-> NoAnswer]
    /\ exSeen = Seen(SearchOutcome("none", NoExplanation, <<>>))
    /\ exCalls = 0

\* One explain_drug(name) call.
ExplainDrug ==
    /\ exCalls < MaxExplainCalls
    /\ exCalls' = exCalls + 1
    /\ \E bD \in Behaviours("openfda", exKinds["openfda"]),
          bP \in Behaviours("pubmed", exKinds["pubmed"]),
          bT \in Behaviours("clinicaltrials", exKinds["clinicaltrials"]) :
         LET resp == [n \in DefaultProviders |->
                         CASE n = "openfda" -> bD [] n = "pubmed" -> bP [] OTHER -> bT]
         IN /\ exSeen' = Seen(ExplainOf(exClient, exCache, resp))
            /\ exCache' = ExplainOf(exClient, exCache, resp).cache
            /\ exResp' = Reached(exClient, exCache, resp)
    /\ UNCHANGED <<exClient, exKinds>>
    /\ UNCHANGED <<clientVars, limVars, thrVars, pairVars, askVars, synVars, corVars, hcVars, opVars, coVars>>

ExplainNext == ExplainDrug

SpecExplain == ExplainInit /\ [][ExplainNext]_vars

\* The lookup of source n failed in the last call.
LookupFailed(n) ==
    exResp[n].down \/ (exResp[n].res.st = "raise" /\ exResp[n].res.exc # "none")

\* The lookup of source n was made in the last call and succeeded.
LookupMade(n) == exResp[n] # NoAnswer /\ ~LookupFailed(n)

\* C22: explain_drug never raises, whichever lookups fail; drug_info is the
\* drug source's result, or absent when that lookup failed; papers and
\* trials are the sources' results, or empty when that lookup failed.
C22_ExplainDrugNeverRaises ==
    exCalls > 0 =>
        /\ exSeen.out = "returned"
        /\ LookupFailed("openfda") => exSeen.result.drug_info = PyNone
        /\ LookupFailed("pubmed") => exSeen.result.papers = List(<<>>)
        /\ LookupFailed("clinicaltrials") => exSeen.result.trials = List(<<>>)
        /\ LookupMade("openfda") => exSeen.result.drug_info = Value(exResp["openfda"].res)
        /\ LookupMade("pubmed") =>
              SameRecords(exSeen.result.papers.val, Value(exResp["pubmed"].res).val)
        /\ LookupMade("clinicaltrials") =>
              exSeen.result.trials = Value(exResp["clinicaltrials"].res)

(***************************************************************************)
(* Health checks and search (medkit/providers, medkit/client.py)           *)
(***************************************************************************)
MaxProbeSearches == 2   \* searches issued on the client

\* OpenFDAProvider / PubMedProvider / ClinicalTrialsProvider.health_check and
\* health_check_async: one request with timeout=2.0, True on status 200,
\* False when the request fails.
HealthCheck(n) == hcUp[n]

\* What the built-in provider n can answer while its service is up or down.
BuiltinAnswers(n, up) == { b \in Behaviours(n, "builtin") : b.down = ~up }

\* The providers whose search_sync / search a search call reaches: every
\* registered one whose method the cache does not serve. health_check is not
\* consulted.
Issued(kind, c) == { n \in DefaultProviders : ~Hit(kind, c, MethodOf(n)) }

HcInit ==
    /\ ClientOff
    /\ LimInit
    /\ ThrOff
    /\ PairOff
    /\ AskOff
    /\ SynOff
    /\ CorOff
    /\ ExOff
    /\ OpOff
    /\ CoOff
    /\ hcClient \in {"MedKit", "AsyncMedKit"}
    /\ hcUp \in [DefaultProviders -> BOOLEAN]
    /\ hcCache = [m \in Methods |-> NoVal]
    /\ hcIssued = {}
    /\ hcSeen = NoOutcome
    /\ hcCalls = 0

\* One search(query) call while the services are as hcUp tells.
ProbedSearch ==
    /\ hcCalls < MaxProbeSearches
    /\ hcCalls' = hcCalls + 1
    /\ \E bD \in BuiltinAnswers("openfda", hcUp["openfda"]),
          bP \in BuiltinAnswers("pubmed", hcUp["pubmed"]),
          bT \in BuiltinAnswers("clinicaltrials", hcUp["clinicaltrials"]) :
         LET resp == [n \in DefaultProviders |->
                         CASE n = "openfda" -> bD [] n = "pubmed" -> bP [] OTHER -> bT]
         IN /\ hcSeen' = Seen(SearchOf(hcClient, hcCache, resp))
            /\ hcCache' = SearchOf(hcClient, hcCache, resp).cache
    /\ hcIssued' = Issued(hcClient, hcCache)
    /\ UNCHANGED <<hcClient, hcUp>>
    /\ UNCHANGED <<clientVars, limVars, thrVars, pairVars, askVars, synVars, corVars, exVars, opVars, coVars>>

\* A service goes down or comes back between two searches.
Outage(n) ==
    /\ hcCalls < MaxProbeSearches
    /\ hcUp' = [hcUp EXCEPT ![n] = ~@]
    /\ UNCHANGED <<hcClient, hcCache, hcIssued, hcSeen, hcCalls>>
    /\ UNCHANGED <<clientVars, limVars, thrVars, pairVars, askVars, synVars, corVars, exVars, opVars, coVars>>

HcNext ==
    \/ ProbedSearch
    \/ \E n \in DefaultProviders : Outage(n)

SpecProbe == HcInit /\ [][HcNext]_vars

\* The category of source n in what the last search returned is empty.
CategoryEmpty(n) ==
    /\ hcSeen.out = "returned"
    /\ CASE n = "openfda" -> hcSeen.result.drugs = <<>>
         [] n = "pubmed" -> hcSeen.result.papers = List(<<>>)
         [] OTHER -> hcSeen.result.trials = List(<<>>)

\* C23: within one search, the real call to a source whose liveness probe
\* fails is never issued, and the source contributes an empty result.
C23_FailedProbeSkipsCall ==
    [][ProbedSearch =>
          \A n \in DefaultProviders :
              ~HealthCheck(n) => (n \notin hcIssued' /\ CategoryEmpty(n)')]_vars

(***************************************************************************)
(* The branches of search                                                  *)
(***************************************************************************)
\* The finished search ran a branch for source n: search names the three
\* default sources in its code and reaches a source unless an earlier call
\* let an exception through.
BranchRan(n) == n \in DefaultProviders /\ Asked(n)

\* C24: a finished search has run one branch for every source in the
\* registry at the time of the call, sources added through
\* register_provider included.
C24_EveryRegisteredSourceSearched ==
    pc = "done" => \A n \in DOMAIN providers : BranchRan(n)

(***************************************************************************)
(* One per-source operation: drug, papers, trials (medkit/client.py)       *)
(***************************************************************************)
MaxOps == 2   \* operations started on the client

\* The arguments callers pass.
OpQueries == {"aspirin", " Aspirin "}

\* self._providers.get("openfda") / ("pubmed") / ("clinicaltrials")
ProviderOf(m) ==
    CASE m = "drug" -> "openfda"
      [] m = "papers" -> "pubmed"
      [] OTHER -> "clinicaltrials"

\* A method that waits on another source's limiter.
LimiterSwapped(m) ==
    CASE m = "drug" -> "_pubmed_limiter"
      [] m = "papers" -> "_fda_limiter"
      [] OTHER -> "_trials_limiter"

\* self._fda_limiter.wait() / self._pubmed_limiter.wait() / self._trials_limiter.wait()
LimiterOf(m) ==
    CASE m = "drug" -> "_fda_limiter"
      [] m = "papers" -> "_pubmed_limiter"
      [] OTHER -> "_trials_limiter"

\* limiter.wait() returned.
Waited(l) == [ev |-> "wait", on |-> l, arg |-> "none"]

\* provider.search_sync(arg, ...) / await provider.search(arg, ...) was called.
Called(n, a) == [ev |-> "call", on |-> n, arg |-> a]

OpNone == Raise("none")

OpInit ==
    /\ ClientOff
    /\ LimInit
    /\ ThrOff
    /\ PairOff
    /\ AskOff
    /\ SynOff
    /\ CorOff
    /\ ExOff
    /\ HcOff
    /\ CoOff
    /\ opClient \in {"MedKit", "AsyncMedKit"}
    /\ opKinds \in [DefaultProviders -> {"builtin", "plugin", "missing"}]
    /\ opCache = [m \in Methods |-> [q \in OpQueries |-> NoVal]]
    /\ opMethod = "none"
    /\ opArg = "none"
    /\ opPc = "idle"
    /\ opLog = <<>>
    /\ opRes = OpNone
    /\ opCount = 0

OpFrame == UNCHANGED <<clientVars, limVars, thrVars, pairVars, askVars, synVars, corVars,
                       exVars, hcVars, coVars>>

\* med.drug(q) / med.papers(q) / med.trials(q) is called. cache_response
\* (MedKit only) answers from the lru_cache when it holds the argument.
OpStart(m, q) ==
    /\ opPc \in {"idle", "done"}
    /\ opCount < MaxOps
    /\ opCount' = opCount + 1
    /\ opMethod' = m
    /\ opArg' = q
    /\ opLog' = <<>>
    /\ IF opClient = "MedKit" /\ opCache[m][q] # NoVal
       THEN /\ opPc' = "done"
            /\ opRes' = Return(opCache[m][q])
       ELSE /\ opPc' = "lookup"
            /\ opRes' = OpNone
    /\ UNCHANGED <<opClient, opKinds, opCache>>
    /\ OpFrame

\* provider = self._providers.get(name); if not provider: raise MedKitError(...)
OpLookup ==
    /\ opPc = "lookup"
    /\ IF opKinds[ProviderOf(opMethod)] = "missing"
       THEN /\ opPc' = "done"
            /\ opRes' = Raise("MedKitError")
       ELSE /\ opPc' = "wait"
            /\ UNCHANGED opRes
    /\ UNCHANGED <<opClient, opKinds, opCache, opMethod, opArg, opLog, opCount>>
    /\ OpFrame

\* self._<source>_limiter.wait()
OpWait ==
    /\ opPc = "wait"
    /\ opLog' = Append(opLog, Waited(LimiterOf(opMethod)))
    /\ opPc' = "call"
    /\ UNCHANGED <<opClient, opKinds, opCache, opMethod, opArg, opRes, opCount>>
    /\ OpFrame

\* return provider.search_sync(name) / sorted(provider.search_sync(query,
\* limit=limit), ...) / provider.search_sync(term, recruiting=..., limit=...):
\* one call, whose value or exception is the operation's.
OpCall ==
    /\ opPc = "call"
    /\ opLog' = Append(opLog, Called(ProviderOf(opMethod), opArg))
    /\ opPc' = "done"
    /\ \E b \in Behaviours(ProviderOf(opMethod), opKinds[ProviderOf(opMethod)]) :
         LET res == IF opMethod = "papers" THEN PapersBody(b.res) ELSE b.res
         IN /\ opRes' = res
            /\ opCache' = IF opClient = "MedKit" /\ res.st = "return"
                          THEN [opCache EXCEPT ![opMethod][opArg] = Value(res)]
                          ELSE opCache
    /\ UNCHANGED <<opClient, opKinds, opMethod, opArg, opCount>>
    /\ OpFrame

OpNext ==
    \/ \E m \in Methods, q \in OpQueries : OpStart(m, q)
    \/ OpLookup
    \/ OpWait
    \/ OpCall

SpecOperation == OpInit /\ [][OpNext]_vars

\* The positions of the log at which a provider was called.
CallsInLog == { i \in 1..Len(opLog) : opLog[i].ev = "call" }

\* The limiter the client keeps for a source.
OwnLimiter(n) ==
    CASE n = "openfda" -> "_fda_limiter"
      [] n = "pubmed" -> "_pubmed_limiter"
      [] OTHER -> "_trials_limiter"

\* C25: in a per-source operation that reaches the source, the source's own
\* limiter is acquired first and the source is then called exactly once with
\* the caller's unmodified argument; no call precedes the admission and a
\* failed call is not retried.
C25_LimiterThenOneCall ==
    /\ Cardinality(CallsInLog) <= 1
    /\ \A i \in CallsInLog :
          /\ i = 2
          /\ opLog[1] = Waited(OwnLimiter(opLog[i].on))
          /\ opLog[i].on = ProviderOf(opMethod)
          /\ opLog[i].arg = opArg
    /\ (opPc = "done" /\ CallsInLog # {}) => Len(opLog) = 2

\* A papers operation whose one call failed and was not repeated.
C25_Witness ==
    /\ opPc = "done"
    /\ opMethod = "papers"
    /\ opArg = " Aspirin "
    /\ opRes = Raise("MedKitError")
    /\ opLog = <<Waited("_pubmed_limiter"), Called("pubmed", " Aspirin ")>>
    /\ opCount = MaxOps

(***************************************************************************)
(* search and the cache                                                    *)
(***************************************************************************)
\* The finished search really called source n: the source returned a value
\* or raised during this request.
ReallyCalled(n) == raw[n] # NoVal \/ raised[n] # "none"

\* C26: search bypasses the cache: a finished search has issued a real call
\* to every registered source it got to, also when the same query was
\* searched before, so no category of its result comes from a cache.
C26_SearchBypassesCache ==
    pc = "done" =>
        \A n \in DefaultProviders \cap DOMAIN providers : Asked(n) => ReallyCalled(n)

(***************************************************************************)
(* Termination of wait() (SpecLimiterLive)                                 *)
(***************************************************************************)
\* A wait() call issued early enough for the clock of the model, which
\* stops at MaxTime, to outlast it: the window holds readings no later than
\* the call, so the call sleeps to clock + period at the latest.
StartWaitInTime ==
    /\ clock + period <= MaxTime
    /\ StartWait

LimiterLiveNext ==
    \/ \E c \in 0..MaxCalls, p \in 1..MaxPeriod : Construct(c, p)
    \/ Tick
    \/ StartWaitInTime
    \/ Enter
    \/ Wake
    \/ Admission

\* The clock keeps advancing, a sleep ends once its time has come, and the
\* one caller's thread (or coroutine) keeps running.
SpecLimiterLive ==
    /\ LimiterInit
    /\ [][LimiterLiveNext]_vars
    /\ WF_vars(Tick)
    /\ WF_vars(Enter)
    /\ WF_vars(Wake)
    /\ WF_vars(Admission)

\* C28: on a limiter with calls >= 1 and period > 0, with one caller and an
\* advancing clock, every wait() call eventually returns; it never raises,
\* it sleeps no longer than until the oldest timestamp of the window leaves
\* it, and it has recorded exactly one new timestamp when it returns. For
\* both limiters.
C28_WaitReturns ==
    /\ []((built /\ calls >= 1) => (sPc # "raised" /\ aPc # "raised"))
    /\ []((built /\ calls >= 1 /\ sPc = "sleeping") => sWake = sTs[1] + period)
    /\ []((built /\ calls >= 1 /\ aPc = "sleeping") => aWake = aTs[1] + period)
    /\ \A k \in 1..MaxWaits :
          /\ (calls >= 1 /\ nwaits = k /\ sPc = "entered")
                ~> (sPc = "idle" /\ nwaits = k /\ Len(sLog) = k)
          /\ (calls >= 1 /\ nwaits = k /\ aPc = "entered")
                ~> (aPc = "idle" /\ nwaits = k /\ Len(aLog) = k)

\* A wait() call on a full window has slept until the first timestamp left
\* the window and has returned.
C28_Witness ==
    /\ built /\ calls = 1 /\ period = 2
    /\ nwaits = 2
    /\ sPc = "idle" /\ aPc = "idle"
    /\ sLog = <<0, 2>> /\ aLog = <<0, 2>>
    /\ sSleep = 2 /\ aSleep = 2

(***************************************************************************)
(* Tasks of one event loop and their limiters (SpecCooperative)            *)
(***************************************************************************)
NumTasks == 2      \* tasks the caller gathers
MaxCoOps == 2      \* operations one task starts, one after the other
MaxCoTime == 4     \* the clock stops here

\* The limiters, scaled: AsyncMedKit builds RateLimiter(calls=3, period=1.0),
\* (40, 60.0) and (10, 1.0).
CoCalls == 1
CoPeriod == 2

Tasks == 1..NumTasks
NoTask == 0

\* AsyncMedKit.__init__ builds its three limiters from RateLimiter; a
\* coroutine may also await an AsyncRateLimiter of its own.
LimiterClasses == {"RateLimiter", "AsyncRateLimiter"}

\* time.sleep(sleep_time) keeps the loop's thread; await asyncio.sleep(...)
\* hands it back to the loop.
SleepHoldsThread(class) == class = "RateLimiter"

CoInit ==
    /\ ClientOff
    /\ LimInit
    /\ ThrOff
    /\ PairOff
    /\ AskOff
    /\ SynOff
    /\ CorOff
    /\ ExOff
    /\ HcOff
    /\ OpOff
    /\ coLimiter \in LimiterClasses
    /\ coSrc \in [Tasks -> DefaultProviders]
    /\ coTs = [n \in DefaultProviders |-> <<>>]
    /\ coClock = 0
    /\ coRun = NoTask
    /\ coPc = [t \in Tasks |-> "ready"]
    /\ coWake = [t \in Tasks |-> 0]
    /\ coOps = [t \in Tasks |-> 1]

CoFrame == UNCHANGED <<clientVars, limVars, thrVars, pairVars, askVars, synVars, corVars,
                       exVars, hcVars, opVars>>

\* Task t executes wait() from its top on its source's limiter, and what
\* follows it up to the next point where the thread is given up or held:
\* admitted, it appends the timestamp and awaits provider.search(...);
\* refused, it sleeps.
Pass(t) ==
    LET pruned == IF coLimiter = "RateLimiter"
                  THEN PruneSync(coTs[coSrc[t]], coClock, CoPeriod)
                  ELSE PruneAsync(coTs[coSrc[t]], coClock, CoPeriod)
        d == Decide(pruned, CoCalls, CoPeriod, coClock)
    IN  IF d.pc = "append"
        THEN /\ coTs' = [coTs EXCEPT ![coSrc[t]] = Append(pruned, coClock)]
             /\ coPc' = [coPc EXCEPT ![t] = "io"]
             /\ coRun' = NoTask
             /\ UNCHANGED coWake
        ELSE /\ coTs' = [coTs EXCEPT ![coSrc[t]] = pruned]
             /\ coWake' = [coWake EXCEPT ![t] = IF d.pc = "sleeping" THEN d.wake ELSE coClock]
             /\ IF SleepHoldsThread(coLimiter) \/ d.pc # "sleeping"
                THEN /\ coPc' = [coPc EXCEPT ![t] = "blocked"]
                     /\ coRun' = t
                ELSE /\ coPc' = [coPc EXCEPT ![t] = "suspended"]
                     /\ coRun' = NoTask

\* The loop, idle, runs a task that is ready: one not yet started, or one
\* whose asyncio.sleep is over.
CoRun(t) ==
    /\ coRun = NoTask
    /\ coPc[t] = "ready" \/ (coPc[t] = "suspended" /\ coClock >= coWake[t])
    /\ Pass(t)
    /\ UNCHANGED <<coLimiter, coSrc, coClock, coOps>>
    /\ CoFrame

\* time.sleep(sleep_time) returns in the task that holds the thread; wait()
\* calls itself.
CoWakeUp(t) ==
    /\ coRun = t
    /\ coPc[t] = "blocked"
    /\ coClock >= coWake[t]
    /\ Pass(t)
    /\ UNCHANGED <<coLimiter, coSrc, coClock, coOps>>
    /\ CoFrame

\* The provider's answer arrives; the loop, idle, resumes the task, which
\* returns.
CoIoDone(t) ==
    /\ coRun = NoTask
    /\ coPc[t] = "io"
    /\ coPc' = [coPc EXCEPT ![t] = "done"]
    /\ UNCHANGED <<coLimiter, coSrc, coTs, coClock, coRun, coWake, coOps>>
    /\ CoFrame

\* The caller starts the task's next operation.
CoAgain(t) ==
    /\ coPc[t] = "done"
    /\ coOps[t] < MaxCoOps
    /\ coOps' = [coOps EXCEPT ![t] = @ + 1]
    /\ coPc' = [coPc EXCEPT ![t] = "ready"]
    /\ UNCHANGED <<coLimiter, coSrc, coTs, coClock, coRun, coWake>>
    /\ CoFrame

\* Time passes.
CoTick ==
    /\ coClock < MaxCoTime
    /\ coClock' = coClock + 1
    /\ UNCHANGED <<coLimiter, coSrc, coTs, coRun, coPc, coWake, coOps>>
    /\ CoFrame

CoNext ==
    \/ \E t \in Tasks : CoRun(t)
    \/ \E t \in Tasks : CoWakeUp(t)
    \/ \E t \in Tasks : CoIoDone(t)
    \/ \E t \in Tasks : CoAgain(t)
    \/ CoTick

SpecCooperative == CoInit /\ [][CoNext]_vars

\* Task t is waiting for admission by its limiter.
WaitingForAdmission(t) == coPc[t] \in {"blocked", "suspended"}

\* Task u could run if the loop gave it the thread.
ReadyTask(u) == coPc[u] = "ready" \/ (coPc[u] = "suspended" /\ coClock >= coWake[u])

\* C27: while a task waits for admission by a limiter, every other ready
\* task can make progress.
C27_WaitingTaskYields ==
    \A t \in Tasks, u \in Tasks :
        (t # u /\ WaitingForAdmission(t) /\ ReadyTask(u)) => ENABLED CoRun(u)

\* The same for tasks that await an AsyncRateLimiter, which AsyncMedKit
\* does not use.
C27_AsyncLimiterYields ==
    coLimiter = "AsyncRateLimiter" => C27_WaitingTaskYields

(***************************************************************************)
(* What the evidence score is made of                                      *)
(***************************************************************************)
\* The trials passed whose one phase text is `PHASE` followed by digit.
TrialsLabelled(digit) == synTrials[<< <<"P", "H", "A", "S", "E", digit>> >>]

\* The papers passed that are dated within the recency window of this year.
PapersInWindow ==
    CountOver(synPapers, { y \in PaperYears : y # NoneYear /\ synYear - y <= RecentWindow })

\* The four contributions the score is said to consist of, in thousandths:
\* the fixed drug bonus, the capped phase-3 and phase-2 contributions and the
\* capped bonus per recent paper.
FourContributions ==
    (IF synDrugs >= 1 THEN FdaBonus ELSE 0)
    + (IF TrialsLabelled("3") >= 1
       THEN Least(P3Base + TrialsLabelled("3") * P3Each, P3Cap) ELSE 0)
    + (IF TrialsLabelled("2") >= 1
       THEN Least(P2Base + TrialsLabelled("2") * P2Each, P2Cap) ELSE 0)
    + Least(PapersInWindow * RecentEach, RecentCap)

\* The score reported, in hundredths, is the total, in thousandths, clamped
\* to 1.0 and rounded to two places.
ReportsClamped(reported, total) ==
    /\ 10 * reported - 5 <= Least(total, One)
    /\ Least(total, One) <= 10 * reported + 5

\* C29: the evidence score synthesize returns is the clamped sum of the
\* drug bonus, the phase-3 and phase-2 contributions and the recent-paper
\* bonus, and of nothing else; papers outside the window and trials without
\* a phase 2/3 label add nothing, so inputs with none of the four score 0.
C29_ScoreIsSumOfFour ==
    [][(/\ synResult' # NoConclusion
        /\ synYear' = synYear
        /\ SynInputs' = SynInputs)
       => /\ ReportsClamped(synResult'.evidence_score, FourContributions)
          /\ FourContributions = 0 => synResult'.evidence_score = 0]_vars

(***************************************************************************)
(* The narrative and the score reported                                    *)
(***************************************************************************)
\* The rung of the ladder that contains a reported score (in hundredths).
RungOfReported(reported) ==
    IF reported >= 70 THEN "Highly-validated"
    ELSE IF reported >= 50 THEN "Strong"
    ELSE IF reported >= 30 THEN "Emerging"
    ELSE IF reported >= 15 THEN "Preliminary"
    ELSE "Sparse"

\* C30: the summary and the recommendation of a conclusion are the templates
\* of the rung (>= 0.7, >= 0.5, >= 0.3, >= 0.15, below) that contains the
\* evidence score the conclusion reports, so that conclusions reporting the
\* same score carry the same templates.
C30_NarrativeFollowsReportedScore ==
    synResult # NoConclusion =>
        /\ synResult.summary = RungOfReported(synResult.evidence_score)
        /\ synResult.recommendation = RungOfReported(synResult.evidence_score)

====
